---- MODULE Spec2Model ----
(***************************************************************************)
(* Zara product scraper (src/src/main.js): the request handler of the      *)
(* crawler, its source resolution, the candidate locator, the product      *)
(* normalizer and the dedup/quota save loop, as a state machine.           *)
(*                                                                         *)
(* JSON values are tagged records [k |-> kind, v |-> payload]; a string    *)
(* is the sequence of its characters, so that length, prefix tests and     *)
(* splitting are computed and not assumed.                                 *)
(***************************************************************************)
EXTENDS Integers, Sequences, FiniteSets, TLC

(***************************************************************************)
(* JavaScript values                                                       *)
(***************************************************************************)
Undefined == [k |-> "undefined"]
Null == [k |-> "null"]
NaN == [k |-> "nan"]
Bool(b) == [k |-> "bool", v |-> b]
\* a number is the fraction v / d, d a power of ten, in lowest such form
Num(n) == [k |-> "num", v |-> n, d |-> 1]
Str(s) == [k |-> "str", v |-> s]
Arr(s) == [k |-> "arr", v |-> s]
Obj(r) == [k |-> "obj", v |-> r]
\* the outcome of an expression that raises a TypeError
Throw == [k |-> "throw"]

IsNullish(x) == x.k \in {"undefined", "null"}
IsString(x) == x.k = "str"
IsArray(x) == x.k = "arr"
\* typeof x === 'object' (null is excluded by the callers' !x test)
TypeofObject(x) == x.k \in {"obj", "arr", "null"}

Truthy(x) ==
    CASE x.k \in {"undefined", "null", "nan", "throw"} -> FALSE
      [] x.k = "bool" -> x.v
      [] x.k = "num" -> x.v # 0
      [] x.k = "str" -> Len(x.v) > 0
      [] OTHER -> TRUE

\* a || b
Or(a, b) == IF Truthy(a) THEN a ELSE b

\* x.name on a non-nullish x (a primitive has no such own property)
Get(x, name) ==
    IF x.k = "obj" /\ name \in DOMAIN x.v THEN x.v[name] ELSE Undefined

\* x?.name
OptGet(x, name) == IF IsNullish(x) THEN Undefined ELSE Get(x, name)

\* x[0] on a non-nullish x
Index0(x) ==
    CASE x.k = "arr" -> IF Len(x.v) > 0 THEN x.v[1] ELSE Undefined
      [] x.k = "str" -> IF Len(x.v) > 0 THEN Str(<<x.v[1]>>) ELSE Undefined
      [] OTHER -> Get(x, "0")

\* x?.[0]
OptIndex0(x) == IF IsNullish(x) THEN Undefined ELSE Index0(x)

\* x.length on a non-nullish x
Length(x) ==
    CASE x.k \in {"arr", "str"} -> Num(Len(x.v))
      [] OTHER -> Get(x, "length")

\* x.length > 0
LengthPositive(x) == LET n == Length(x) IN n.k = "num" /\ n.v > 0

(***************************************************************************)
(* Strings                                                                 *)
(***************************************************************************)
Digits == <<"0", "1", "2", "3", "4", "5", "6", "7", "8", "9">>
DigitSet == {Digits[i] : i \in 1..10}
DigitVal(c) == (CHOOSE i \in 1..10 : Digits[i] = c) - 1

\* s.startsWith(p)
StartsWith(s, p) == Len(s) >= Len(p) /\ SubSeq(s, 1, Len(p)) = p

\* s.split(c)[0]
SplitFirst(s, c) ==
    IF \E i \in 1..Len(s) : s[i] = c
    THEN SubSeq(s, 1, (CHOOSE i \in 1..Len(s) :
                          s[i] = c /\ \A j \in 1..(i - 1) : s[j] # c) - 1)
    ELSE s

\* s.includes(p)
Includes(s, p) ==
    \E i \in 1..(Len(s) - Len(p) + 1) : SubSeq(s, i, i + Len(p) - 1) = p

\* /^\d+$/.test(s)
AllDigits(s) == Len(s) > 0 /\ \A i \in 1..Len(s) : s[i] \in DigitSet

RECURSIVE NatToString(_)
NatToString(n) ==
    IF n < 10 THEN <<Digits[n + 1]>>
    ELSE NatToString(n \div 10) \o <<Digits[(n % 10) + 1]>>

RECURSIVE FracDigits(_, _)
\* the digits of r / d after the decimal point (r < d, d a power of ten)
FracDigits(r, d) ==
    IF d = 1 THEN <<>>
    ELSE <<Digits[(r \div (d \div 10)) + 1]>> \o FracDigits(r % (d \div 10), d \div 10)

NumToString(x) ==
    LET a == IF x.v < 0 THEN -x.v ELSE x.v
        sign == IF x.v < 0 THEN <<"-">> ELSE <<>>
    IN  sign \o NatToString(a \div x.d)
             \o (IF x.d = 1 THEN <<>> ELSE <<".">> \o FracDigits(a % x.d, x.d))

OBJECT_OBJECT == <<"[", "o", "b", "j", "e", "c", "t", " ", "O", "b", "j", "e", "c", "t", "]">>

RECURSIVE JsString(_)
RECURSIVE Join(_)
\* Array.prototype.join(","): null and undefined elements give ""
Join(s) ==
    IF Len(s) = 0 THEN <<>>
    ELSE (IF IsNullish(s[1]) THEN <<>> ELSE JsString(s[1]))
         \o (IF Len(s) = 1 THEN <<>> ELSE <<",">> \o Join(Tail(s)))

\* String(x), also the conversion of `${x}`
JsString(x) ==
    CASE x.k = "str" -> x.v
      [] x.k = "num" -> NumToString(x)
      [] x.k = "nan" -> <<"N", "a", "N">>
      [] x.k = "bool" -> IF x.v THEN <<"t", "r", "u", "e">> ELSE <<"f", "a", "l", "s", "e">>
      [] x.k = "null" -> <<"n", "u", "l", "l">>
      [] x.k = "undefined" -> <<"u", "n", "d", "e", "f", "i", "n", "e", "d">>
      [] x.k = "arr" -> Join(x.v)
      [] OTHER -> OBJECT_OBJECT

(***************************************************************************)
(* Numbers                                                                 *)
(***************************************************************************)
RECURSIVE MkNum(_, _)
\* the number v / d with trailing zeros of the fraction removed
MkNum(v, d) ==
    IF d > 1 /\ v % 10 = 0 THEN MkNum(v \div 10, d \div 10)
    ELSE [k |-> "num", v |-> v, d |-> d]

RECURSIVE DigitsValue(_)
DigitsValue(s) ==
    IF Len(s) = 0 THEN 0
    ELSE 10 * DigitsValue(SubSeq(s, 1, Len(s) - 1)) + DigitVal(s[Len(s)])

RECURSIVE Pow10(_)
Pow10(n) == IF n = 0 THEN 1 ELSE 10 * Pow10(n - 1)

\* the longest prefix of s made of characters of cs
LeadingRun(s, cs) ==
    LET stops == {i \in 1..Len(s) : s[i] \notin cs}
    IN  IF stops = {} THEN s
        ELSE SubSeq(s, 1, (CHOOSE i \in stops : \A j \in stops : i <= j) - 1)

\* parseFloat(s) for a string of digits and dots
ParseFloat(s) ==
    LET int == LeadingRun(s, DigitSet)
        rest == SubSeq(s, Len(int) + 1, Len(s))
        frac == IF Len(rest) > 0 /\ rest[1] = "."
                THEN LeadingRun(Tail(rest), DigitSet) ELSE <<>>
    IN  IF Len(int) = 0 /\ Len(frac) = 0 THEN NaN
        ELSE MkNum(DigitsValue(int) * Pow10(Len(frac)) + DigitsValue(frac),
                   Pow10(Len(frac)))

PriceChars == DigitSet \cup {".", ","}

\* s.match(/[\d.,]+/): the first run of price characters, <<>> when none
MatchPrice(s) ==
    LET starts == {i \in 1..Len(s) : s[i] \in PriceChars}
    IN  IF starts = {} THEN <<>>
        ELSE LeadingRun(SubSeq(s, CHOOSE i \in starts : \A j \in starts : i <= j,
                               Len(s)), PriceChars)

\* s.replace(/,/g, '')
RemoveCommas(s) == SelectSeq(s, LAMBDA c : c # ",")

(***************************************************************************)
(* Field normalization                                                     *)
(***************************************************************************)
HTTPS_COLON == <<"h", "t", "t", "p", "s", ":">>
HTTP == <<"h", "t", "t", "p">>
STATIC_HOST == HTTPS_COLON \o <<"/", "/", "s", "t", "a", "t", "i", "c", ".",
                                 "z", "a", "r", "a", ".", "n", "e", "t">>
SITE_HOST == HTTPS_COLON \o <<"/", "/", "w", "w", "w", ".",
                               "z", "a", "r", "a", ".", "c", "o", "m">>
DOT_HTML == <<".", "h", "t", "m", "l">>
PRODUCT_PATH == <<"/", "p", "r", "o", "d", "u", "c", "t", "/">>
GBP == <<"G", "B", "P">>
IN_STOCK == <<"i", "n", "_", "s", "t", "o", "c", "k">>
OUT_OF_STOCK == <<"o", "u", "t", "_", "o", "f", "_", "s", "t", "o", "c", "k">>
VIDEO == <<"V", "I", "D", "E", "O">>
MPEG == <<"M", "P", "E", "G">>

\* normalizeImageUrl(url); Throw when url has no startsWith method
normalizeImageUrl(url) ==
    IF ~Truthy(url) THEN Null
    ELSE IF ~IsString(url) THEN Throw
    ELSE LET cleanUrl == IF StartsWith(url.v, <<"/", "/">>)
                         THEN HTTPS_COLON \o url.v ELSE url.v
             absUrl == IF StartsWith(cleanUrl, <<"/">>)
                       THEN STATIC_HOST \o cleanUrl ELSE cleanUrl
         IN  Str(SplitFirst(absUrl, "?"))

\* const product = item.detail || item.item || item.product || item
Unwrap(item) ==
    Or(Or(Or(Get(item, "detail"), Get(item, "item")), Get(item, "product")), item)

\* const productId = String(product.id || product.productId || ... || '')
ProductId(product) ==
    LET seo == Get(product, "seo")
    IN  JsString(
          Or(Or(Or(Or(Or(Get(product, "id"), Get(product, "productId")),
                      OptGet(seo, "keyword")),
                   OptGet(seo, "seoProductId")),
                OptGet(OptIndex0(Get(product, "commercialComponents")), "id")),
             Str(<<>>)))

MinIdLength == 4
MaxIdLength == 20

\* the id test without its test for short numeric ids
RejectIdNoShortTest(productId) ==
    \/ Len(productId) = 0
    \/ Len(productId) > MaxIdLength

\* the id test that makes the callback return null
RejectId(productId) ==
    \/ Len(productId) = 0
    \/ (Len(productId) < MinIdLength /\ AllDigits(productId))
    \/ Len(productId) > MaxIdLength

\* const name = product.name || product.title || ... || ''
Name(product) ==
    LET seo == Get(product, "seo")
    IN  Or(Or(Or(Or(Or(Get(product, "name"), Get(product, "title")),
                    OptGet(seo, "seoProductId")),
                 OptGet(seo, "keyword")),
              OptGet(Get(product, "detail"), "displayName")),
           Str(<<>>))

\* the price before unit correction
RawPrice(product) ==
    LET p == Get(product, "price")
    IN  IF Truthy(p)
        THEN IF TypeofObject(p)
             THEN Or(Or(Get(p, "value"), Get(p, "amount")), Get(p, "formattedPrice"))
             ELSE p
        ELSE IF Truthy(Get(product, "displayPrice")) THEN Get(product, "displayPrice")
        ELSE IF Truthy(Get(product, "formattedPrice")) THEN Get(product, "formattedPrice")
        ELSE IF Truthy(OptGet(Get(product, "detail"), "price"))
             THEN Get(Get(product, "detail"), "price")
        ELSE Null

CentsThreshold == 1000

\* the unit correction with 100 as its threshold
FixUnitsAbove100(price) ==
    IF price.k = "num" /\ price.v > 100 * price.d /\ price.d = 1
    THEN MkNum(price.v, 100) ELSE price

\* if (price && typeof price === 'number' && price > 1000 &&
\*     Number.isInteger(price)) price = price / 100
FixUnits(price) ==
    IF price.k = "num" /\ price.v > CentsThreshold * price.d /\ price.d = 1
    THEN MkNum(price.v, 100) ELSE price

\* if (typeof price === 'string'): the first run of price characters parsed
ParsePrice(price) ==
    IF IsString(price)
    THEN LET m == MatchPrice(price.v)
         IN  IF Len(m) > 0 THEN ParseFloat(RemoveCommas(m)) ELSE price
    ELSE price

\* price corrected from cents, then a string price parsed
Price(product) == ParsePrice(FixUnits(RawPrice(product)))

\* const currency = product.currency || product.currencyIso || ... || 'GBP'
Currency(product) ==
    Or(Or(Or(Get(product, "currency"), Get(product, "currencyIso")),
          OptGet(Get(product, "detail"), "currency")),
       Str(GBP))

\* m.mediaType?.includes(word): TRUE, FALSE, or Throw when mediaType has
\* no includes method
MediaTypeIncludes(mt, word) ==
    CASE IsNullish(mt) -> Undefined
      [] mt.k = "str" -> Bool(Includes(mt.v, word))
      [] mt.k = "arr" -> Bool(\E i \in 1..Len(mt.v) : mt.v[i] = Str(word))
      [] OTHER -> Throw

\* the predicate of product.xmedia.find on one entry
IsRealImage(m) ==
    IF IsNullish(m) THEN Throw
    ELSE IF ~Truthy(Get(m, "url")) THEN Bool(FALSE)
    ELSE LET v == MediaTypeIncludes(Get(m, "mediaType"), VIDEO)
             g == MediaTypeIncludes(Get(m, "mediaType"), MPEG)
         IN  IF v = Throw THEN Throw
             ELSE IF Truthy(v) THEN Bool(FALSE)
             ELSE IF g = Throw THEN Throw
             ELSE Bool(~Truthy(g))

RECURSIVE FindRealImage(_)
\* product.xmedia.find(...): the first entry that passes, Undefined, or Throw
FindRealImage(xs) ==
    IF Len(xs) = 0 THEN Undefined
    ELSE CASE IsRealImage(xs[1]) = Throw -> Throw
           [] IsRealImage(xs[1]) = Bool(TRUE) -> xs[1]
           [] OTHER -> FindRealImage(Tail(xs))

\* if (realImage) imageUrl = realImage.url || realImage.path
RealImageUrl(realImage) ==
    IF realImage = Throw THEN Throw
    ELSE IF Truthy(realImage) THEN Or(Get(realImage, "url"), Get(realImage, "path"))
    ELSE Null

\* let imageUrl = null; the chain of image fallbacks
PrimaryImage(product) ==
    LET image == Get(product, "image")
        xmedia == Get(product, "xmedia")
        images == Get(product, "images")
        dx0 == OptIndex0(OptGet(Get(product, "detail"), "xmedia"))
    IN  IF Truthy(image)
        THEN IF IsString(image) THEN image ELSE Get(image, "url")
        ELSE IF Truthy(xmedia) /\ IsArray(xmedia) /\ Len(xmedia.v) > 0
        THEN RealImageUrl(FindRealImage(xmedia.v))
        ELSE IF Truthy(images) /\ IsArray(images) /\ Len(images.v) > 0
        THEN images.v[1]
        ELSE IF Truthy(dx0) THEN Or(Get(dx0, "url"), Get(dx0, "path"))
        ELSE Null

\* if (!imageUrl && product.colors?.length > 0): the fallback for color media
ColorImage(imageUrl, colors) ==
        IF imageUrl = Throw THEN Throw
        ELSE IF ~Truthy(imageUrl) /\ Truthy(colors) /\ LengthPositive(colors)
        THEN LET c == Index0(colors)
             IN  IF IsNullish(c) THEN Throw
                 ELSE LET cx == Get(c, "xmedia")
                      IN  IF Truthy(cx) /\ LengthPositive(cx)
                          THEN IF IsNullish(Index0(cx)) THEN Throw
                               ELSE Or(Get(Index0(cx), "url"), Get(Index0(cx), "path"))
                          ELSE imageUrl
        ELSE imageUrl

\* imageUrl after all its fallbacks
ImageUrl(product) == ColorImage(PrimaryImage(product), Get(product, "colors"))

\* let productUrl = product.url || product.detailUrl || product.detail?.url
ProductUrl(product, productId) ==
    LET productUrl == Or(Or(Get(product, "url"), Get(product, "detailUrl")),
                         OptGet(Get(product, "detail"), "url"))
        keyword == OptGet(Get(product, "seo"), "keyword")
    IN  IF ~Truthy(productUrl) /\ Truthy(keyword)
        THEN Str(<<"/">> \o JsString(keyword) \o DOT_HTML)
        ELSE IF ~Truthy(productUrl) /\ Len(productId) > 0
        THEN Str(PRODUCT_PATH \o productId \o DOT_HTML)
        ELSE productUrl

\* product_url: productUrl && !productUrl.startsWith('http') ? ... : productUrl
AbsoluteProductUrl(productUrl) ==
    IF ~Truthy(productUrl) THEN productUrl
    ELSE IF ~IsString(productUrl) THEN Throw
    ELSE IF ~StartsWith(productUrl.v, HTTP) THEN Str(SITE_HOST \o productUrl.v)
    ELSE productUrl

\* const availability = product.availability || ... || null
Availability(product) ==
    Or(Or(Or(Get(product, "availability"),
             OptGet(Get(product, "detail"), "availability")),
          IF Truthy(Get(product, "inStock")) THEN Str(IN_STOCK) ELSE Str(OUT_OF_STOCK)),
       Null)

Category(product) ==
    Or(Or(Or(Get(product, "category"), Get(product, "section")),
          OptGet(Get(product, "detail"), "category")), Null)

Subcategory(product) ==
    Or(Or(Or(Get(product, "subcategory"), Get(product, "subSection")),
          OptGet(Get(product, "detail"), "subcategory")), Null)

Colors(product) ==
    Or(Or(Or(Get(product, "colors"), Get(product, "availableColors")),
          OptGet(Get(product, "detail"), "colors")), Null)

\* image_url: normalizeImageUrl(imageUrl)
NormalizedImage(imageUrl) ==
    IF imageUrl = Throw THEN Throw ELSE normalizeImageUrl(imageUrl)

\* the returned object with a candidate without a price skipped as well
RecordNeedsPrice(product, productId, name, image_url, product_url) ==
    IF RejectId(productId) THEN Null
    ELSE IF ~Truthy(name) \/ ~Truthy(Price(product)) THEN Null
    ELSE IF image_url = Throw \/ product_url = Throw THEN Throw
    ELSE [k |-> "rec",
          v |-> [product_id |-> Str(productId),
                 name |-> name,
                 price |-> Price(product),
                 currency |-> Currency(product),
                 image_url |-> image_url,
                 product_url |-> product_url,
                 availability |-> Availability(product),
                 category |-> Category(product),
                 subcategory |-> Subcategory(product),
                 colors |-> Colors(product)]]

\* the id and name tests and the returned object
Record(product, productId, name, image_url, product_url) ==
    IF RejectId(productId) THEN Null
    ELSE IF ~Truthy(name) THEN Null
    ELSE IF image_url = Throw \/ product_url = Throw THEN Throw
    ELSE [k |-> "rec",
          v |-> [product_id |-> Str(productId),
                 name |-> name,
                 price |-> Price(product),
                 currency |-> Currency(product),
                 image_url |-> image_url,
                 product_url |-> product_url,
                 availability |-> Availability(product),
                 category |-> Category(product),
                 subcategory |-> Subcategory(product),
                 colors |-> Colors(product)]]

\* the callback's work on the unwrapped product
NormalizeProduct(product, productId) ==
    Record(product, productId, Name(product), NormalizedImage(ImageUrl(product)),
           AbsoluteProductUrl(ProductUrl(product, productId)))

\* the callback of products.map: a record, Null (candidate skipped) or Throw
NormalizeItem(item) ==
    IF ~Truthy(item) \/ ~TypeofObject(item) THEN Null
    ELSE NormalizeProduct(Unwrap(item), ProductId(Unwrap(item)))

\* .filter(p => p !== null && p.product_id && p.name)
KeepRecord(p) == p # Null /\ Truthy(p.v.product_id) /\ Truthy(p.v.name)

RECURSIVE MapItems(_)
MapItems(items) ==
    IF Len(items) = 0 THEN <<>>
    ELSE <<NormalizeItem(items[1])>> \o MapItems(Tail(items))

\* the outcome of a call: a returned list of records, or a raised error
Ok(list) == [k |-> "ok", v |-> list]

\* the filter over the mapped candidates; Throw when the callback raised on
\* some candidate (map has no handler around it)
Filtered(mapped) ==
    IF \E i \in 1..Len(mapped) : mapped[i] = Throw THEN Throw
    ELSE LET kept == SelectSeq(mapped, KeepRecord)
         IN  Ok([i \in 1..Len(kept) |-> kept[i].v])

\* normalizeProducts(products): the list of records, or Throw
normalizeProducts(products) ==
    IF ~IsArray(products) THEN Ok(<<>>) ELSE Filtered(MapItems(products.v))

(***************************************************************************)
(* Candidate location                                                      *)
(***************************************************************************)
\* isProductArray without the test for nested elements / components
isProductArrayNoGroupTest(arr) ==
    IF ~IsArray(arr) \/ Len(arr.v) = 0 THEN FALSE
    ELSE IF ~Truthy(arr.v[1]) \/ ~TypeofObject(arr.v[1]) THEN FALSE
    ELSE /\ \/ Truthy(Get(arr.v[1], "id"))
            \/ Truthy(Get(arr.v[1], "productId"))
            \/ Truthy(Get(arr.v[1], "name"))
            \/ Truthy(Get(arr.v[1], "detail"))
         /\ ~(/\ Truthy(Get(arr.v[1], "id"))
              /\ Get(arr.v[1], "id").k = "num"
              /\ Get(arr.v[1], "id").v < 100 * Get(arr.v[1], "id").d
              /\ ~Truthy(Get(arr.v[1], "name")))

\* isProductArray(arr)
isProductArray(arr) ==
    IF ~IsArray(arr) \/ Len(arr.v) = 0 THEN FALSE
    ELSE LET firstItem == arr.v[1]
             id == Get(firstItem, "id")
         IN  IF ~Truthy(firstItem) \/ ~TypeofObject(firstItem) THEN FALSE
             ELSE IF Truthy(Get(firstItem, "elements"))
                     \/ Truthy(Get(firstItem, "commercialComponents")) THEN FALSE
             ELSE LET hasProductProps ==
                          \/ Truthy(id)
                          \/ Truthy(Get(firstItem, "productId"))
                          \/ Truthy(Get(firstItem, "name"))
                          \/ Truthy(Get(firstItem, "detail"))
                      isMediaFormat ==
                          /\ Truthy(id)
                          /\ id.k = "num"
                          /\ id.v < 100 * id.d
                          /\ ~Truthy(Get(firstItem, "name"))
                  IN  hasProductProps /\ ~isMediaFormat

RECURSIVE getNestedValue(_, _)
\* getNestedValue(obj, path), path given as its list of parts:
\* parts.reduce((acc, part) => acc?.[part], obj)
getNestedValue(obj, parts) ==
    IF Len(parts) = 0 THEN obj
    ELSE getNestedValue(OptGet(obj, parts[1]), Tail(parts))

searchPaths ==
    << <<"productGroups">>,
       <<"viewPayload", "productGroups">>,
       <<"grid", "products">>,
       <<"productList">>,
       <<"products">>,
       <<"category", "products">> >>

RECURSIVE extractProductsFromData(_)
RECURSIVE FlattenItems(_)
RECURSIVE SearchKnownPaths(_, _)

\* the products of one item put in front of those gathered (unshift)
PushedInFront(head, rest) ==
    IF head = Throw THEN Throw
    ELSE IF rest = Throw THEN Throw
    ELSE Ok(rest.v \o head.v)

\* allProducts.push(...): the products of one item followed by those of
\* the items after it
Pushed(head, rest) ==
    IF head = Throw THEN Throw
    ELSE IF rest = Throw THEN Throw
    ELSE Ok(head.v \o rest.v)

\* the body of the flattening loop on one item
FlattenItem(item) ==
    IF IsNullish(item) THEN Throw
    ELSE IF Truthy(Get(item, "elements"))
    THEN extractProductsFromData(Get(item, "elements"))
    ELSE IF Truthy(Get(item, "commercialComponents"))
    THEN extractProductsFromData(Get(item, "commercialComponents"))
    ELSE normalizeProducts(Arr(<<item>>))

\* the flattening loop over the items of an array that is not a product array
FlattenItems(items) ==
    IF Len(items) = 0 THEN Ok(<<>>)
    ELSE Pushed(FlattenItem(items[1]), FlattenItems(Tail(items)))

\* the search ended at the first path that has a value
FoundOrLaterStopsAtFirst(extracted, later) == extracted

\* if (extracted.length > 0) return extracted; else the later paths
FoundOrLater(extracted, later) ==
    IF extracted = Throw THEN Throw
    ELSE IF Len(extracted.v) > 0 THEN extracted
    ELSE later

\* the loop over searchPaths from index i on
SearchKnownPaths(data, i) ==
    IF i > Len(searchPaths) THEN Ok(<<>>)
    ELSE IF Truthy(getNestedValue(data, searchPaths[i]))
    THEN FoundOrLater(extractProductsFromData(getNestedValue(data, searchPaths[i])),
                      SearchKnownPaths(data, i + 1))
    ELSE SearchKnownPaths(data, i + 1)

\* extractProductsFromData(data)
extractProductsFromData(data) ==
    IF ~Truthy(data) THEN Ok(<<>>)
    ELSE IF IsArray(data)
    THEN IF isProductArray(data) THEN normalizeProducts(data)
         ELSE FlattenItems(data.v)
    ELSE SearchKnownPaths(data, 1)

(***************************************************************************)
(* Run inputs                                                              *)
(***************************************************************************)
DefaultResultsWanted == 20

\* +x (strings: the unsigned integer literals and the empty string)
UnaryPlus(x) ==
    CASE x.k = "num" -> x
      [] x.k = "null" -> Num(0)
      [] x.k = "bool" -> IF x.v THEN Num(1) ELSE Num(0)
      [] x.k = "str" -> IF Len(x.v) = 0 THEN Num(0)
                        ELSE IF AllDigits(x.v) THEN Num(DigitsValue(x.v))
                        ELSE NaN
      [] OTHER -> NaN

\* results_wanted: RESULTS_WANTED_RAW = 20, then
\* Number.isFinite(+RESULTS_WANTED_RAW) ? Math.max(1, +RESULTS_WANTED_RAW) : 20
ResultsWanted(input) ==
    LET raw == IF input = Undefined THEN Num(DefaultResultsWanted) ELSE input
        n == UnaryPlus(raw)
    IN  IF n.k = "num"
        THEN (IF n.v >= n.d THEN n ELSE Num(1))
        ELSE Num(DefaultResultsWanted)

CATEGORY == <<"c", "a", "t", "e", "g", "o", "r", "y">>

\* the digits captured at position i of url by (\d+) followed by suffix
DigitsThen(url, i, suffix) ==
    LET run == LeadingRun(SubSeq(url, i, Len(url)), DigitSet)
    IN  IF Len(run) > 0 /\ StartsWith(SubSeq(url, i + Len(run), Len(url)), suffix)
        THEN run ELSE <<>>

\* extractCategoryId(url)
extractCategoryId(url) ==
    LET m1 == {i \in 1..Len(url) :
                 /\ url[i] \in {"-", "/"}
                 /\ i + 1 <= Len(url) /\ url[i + 1] = "l"
                 /\ Len(DigitsThen(url, i + 2, DOT_HTML)) > 0}
        m2 == {i \in 1..Len(url) :
                 /\ StartsWith(SubSeq(url, i, Len(url)), CATEGORY)
                 /\ i + Len(CATEGORY) <= Len(url)
                 /\ url[i + Len(CATEGORY)] \in {"=", "/"}
                 /\ Len(DigitsThen(url, i + Len(CATEGORY) + 1, <<>>)) > 0}
        first(m) == CHOOSE i \in m : \A j \in m : i <= j
    IN  IF m1 # {} THEN Str(DigitsThen(url, first(m1) + 2, DOT_HTML))
        ELSE IF m2 # {} THEN Str(DigitsThen(url, first(m2) + Len(CATEGORY) + 1, <<>>))
        ELSE Null

(***************************************************************************)
(* Pages served to the crawler                                             *)
(***************************************************************************)
Id1 == <<"1", "0", "0", "1">>
Id2 == <<"1", "0", "0", "2">>
Id4 == <<"1", "0", "0", "4">>
Id5 == <<"1", "0", "0", "5">>

\* a product as the embedded state, the API and the markup describe it
EmbProduct(id) == Obj([id |-> Str(id), name |-> Str(<<"E">>)])
ApiProduct(n) == Obj([id |-> Num(n), name |-> Str(<<"A">>), price |-> Num(3599)])
LdProduct(id) == Obj([item |-> Obj([productId |-> Str(id), name |-> Str(<<"L">>)])])
\* a candidate whose url is a number: productUrl.startsWith is not a function
BadUrlProduct(id) == Obj([id |-> Str(id), name |-> Str(<<"E">>), url |-> Num(5)])
\* a media-format descriptor
MediaFormat == Obj([id |-> Num(7), name |-> Null])

Groups(candidates) ==
    Arr(<<Obj([elements |-> Arr(<<Obj([commercialComponents |-> Arr(candidates)])>>)])>>)

ItemList(elements) ==
    Obj(("@type" :> Str(<<"I", "t", "e", "m", "L", "i", "s", "t">>))
        @@ [itemListElement |-> Arr(elements)])

\* the API's answer: a refusal, a fetch that threw (no status), a body
NoResponse == [ok |-> FALSE, status |-> 403, body |-> Undefined]
FetchFailed == [ok |-> FALSE, status |-> 0, body |-> Undefined]
Response(body) == [ok |-> TRUE, status |-> 200, body |-> body]

Page(blocked, preloadedState, zara, apiResponse, jsonLd) ==
    [blocked |-> blocked, PRELOADED_STATE |-> preloadedState, zara |-> zara,
     apiResponse |-> apiResponse, jsonLd |-> jsonLd]

EmbeddedTwo ==
    Obj([viewPayload |-> Obj([categoryId |-> Num(24),
                              productGroups |-> Groups(<<EmbProduct(Id1), EmbProduct(Id2)>>)])])
EmbeddedMedia == Obj([products |-> Arr(<<MediaFormat>>)])
EmbeddedMediaCat ==
    Obj([products |-> Arr(<<MediaFormat>>),
         viewPayload |-> Obj([category |-> Obj([id |-> Num(24)])])])
EmbeddedBad ==
    Obj([products |-> Arr(<<EmbProduct(Id2), BadUrlProduct(Id4), EmbProduct(Id5)>>)])

ApiTwo == Response(Obj([productGroups |-> Groups(<<ApiProduct(1001), ApiProduct(1003)>>)]))
ApiFive ==
    Response(Obj([productGroups |->
        Groups(<<ApiProduct(1001), ApiProduct(1002), ApiProduct(1002),
                 ApiProduct(1003), ApiProduct(1004), ApiProduct(1005)>>)]))

LdOne == <<ItemList(<<LdProduct(Id5)>>)>>

Pages ==
    { Page(TRUE, Undefined, Undefined, NoResponse, <<>>),
      Page(FALSE, EmbeddedTwo, Undefined, ApiTwo, LdOne),
      Page(FALSE, Undefined, Undefined, ApiFive, LdOne),
      Page(FALSE, Undefined, EmbeddedMediaCat, NoResponse, LdOne),
      Page(FALSE, EmbeddedMedia, Undefined, FetchFailed, <<>>),
      Page(FALSE, Undefined, EmbeddedBad, ApiTwo, <<>>) }
NoPage == Page(FALSE, Undefined, Undefined, NoResponse, <<>>)

\* a category URL that carries its category id, and one that does not
UrlWithId == <<"/", "m", "-", "l", "7", "4", ".", "h", "t", "m", "l">>
UrlWithoutId == <<"/", "m", "a", "n">>
StartUrls == {UrlWithId, UrlWithoutId}
ResultsWantedInputs == {Undefined, Num(0), Num(2)}

(***************************************************************************)
(* The crawl                                                               *)
(***************************************************************************)
\* handler slots that may run at once (timed-out handlers keep running)
NumHandlers == 2
\* the page visits followed in one run
MaxVisits == 2
maxRequestRetries == 3

VARIABLES
    startUrl,        \* input.startUrl
    RESULTS_WANTED,  \* the effective target
    saved,           \* let saved = 0
    seenIds,         \* const seenIds = new Set()
    dataset,         \* the records Dataset.pushData has stored, in order
    requestQueue,    \* the crawler's pending requests
    visits,          \* the page visits started so far
    handlers,        \* the running requestHandler calls and their locals
    call,            \* a helper called on its own: its name, argument and result
    traversal        \* extractProductsFromData on an object graph: its call stack

crawl == <<startUrl, RESULTS_WANTED, saved, seenIds, dataset, requestQueue, visits, handlers>>
vars == <<crawl, call, traversal>>

Handlers == 1..NumHandlers

Request(attempt, retryCount) == [attempt |-> attempt, retryCount |-> retryCount]
NoRequest == Request(0, 0)

Idle ==
    [pc |-> "idle", request |-> NoRequest, detached |-> FALSE, page |-> NoPage,
     internalCategoryId |-> Undefined, extractedProducts |-> <<>>,
     productsToSave |-> <<>>, tried |-> <<>>, outcome |-> "none"]

\* no helper is called on its own
NoCall == [fn |-> "none", arg |-> Undefined, ret |-> Undefined]
NoTraversal == [heap |-> <<>>, stack |-> <<>>, ret |-> Undefined]

Init ==
    /\ call = NoCall
    /\ traversal = NoTraversal
    /\ startUrl \in StartUrls
    /\ RESULTS_WANTED \in {ResultsWanted(i) : i \in ResultsWantedInputs}
    /\ saved = 0
    /\ seenIds = {}
    /\ dataset = <<>>
    /\ requestQueue = <<Request(0, 0)>>
    /\ visits = 0
    /\ handlers = [h \in Handlers |-> Idle]

\* saved >= RESULTS_WANTED
QuotaReached(sv) == sv * RESULTS_WANTED.d >= RESULTS_WANTED.v

RECURSIVE SaveLoopNoQuota(_, _, _)
\* the save loop without its quota test
SaveLoopNoQuota(items, sv, seen) ==
    IF Len(items) = 0
    THEN [productsToSave |-> <<>>, saved |-> sv, seenIds |-> seen]
    ELSE LET item == items[1]
         IN  IF ~Truthy(item.product_id) THEN SaveLoopNoQuota(Tail(items), sv, seen)
             ELSE IF item.product_id.v \notin seen
             THEN LET r == SaveLoopNoQuota(Tail(items), sv + 1,
                                           seen \cup {item.product_id.v})
                  IN  [r EXCEPT !.productsToSave = <<item>> \o @]
             ELSE SaveLoopNoQuota(Tail(items), sv, seen)

RECURSIVE SaveLoopNoAdd(_, _, _)
\* the save loop without seenIds.add
SaveLoopNoAdd(items, sv, seen) ==
    IF Len(items) = 0 \/ QuotaReached(sv)
    THEN [productsToSave |-> <<>>, saved |-> sv, seenIds |-> seen]
    ELSE LET item == items[1]
         IN  IF ~Truthy(item.product_id) THEN SaveLoopNoAdd(Tail(items), sv, seen)
             ELSE IF item.product_id.v \notin seen
             THEN LET r == SaveLoopNoAdd(Tail(items), sv + 1, seen)
                  IN  [r EXCEPT !.productsToSave = <<item>> \o @]
             ELSE SaveLoopNoAdd(Tail(items), sv, seen)

RECURSIVE SaveLoopNoDedup(_, _, _)
\* the save loop without its seenIds.has test
SaveLoopNoDedup(items, sv, seen) ==
    IF Len(items) = 0 \/ QuotaReached(sv)
    THEN [productsToSave |-> <<>>, saved |-> sv, seenIds |-> seen]
    ELSE LET item == items[1]
         IN  IF ~Truthy(item.product_id) THEN SaveLoopNoDedup(Tail(items), sv, seen)
             ELSE LET r == SaveLoopNoDedup(Tail(items), sv + 1,
                                           seen \cup {item.product_id.v})
                  IN  [r EXCEPT !.productsToSave = <<item>> \o @]

RECURSIVE SaveLoopCountsSeen(_, _, _)
\* the save loop with saved++ outside the test for a seen id
SaveLoopCountsSeen(items, sv, seen) ==
    IF Len(items) = 0 \/ QuotaReached(sv)
    THEN [productsToSave |-> <<>>, saved |-> sv, seenIds |-> seen]
    ELSE LET item == items[1]
         IN  IF ~Truthy(item.product_id) THEN SaveLoopCountsSeen(Tail(items), sv, seen)
             ELSE IF item.product_id.v \notin seen
             THEN LET r == SaveLoopCountsSeen(Tail(items), sv + 1,
                                              seen \cup {item.product_id.v})
                  IN  [r EXCEPT !.productsToSave = <<item>> \o @]
             ELSE SaveLoopCountsSeen(Tail(items), sv + 1, seen)

RECURSIVE SaveLoop(_, _, _)
\* for (const item of extractedProducts) { ... }: the records to save and
\* the values of saved and seenIds after the loop
SaveLoop(items, sv, seen) ==
    IF Len(items) = 0 \/ QuotaReached(sv)
    THEN [productsToSave |-> <<>>, saved |-> sv, seenIds |-> seen]
    ELSE LET item == items[1]
         IN  IF ~Truthy(item.product_id) THEN SaveLoop(Tail(items), sv, seen)
             ELSE IF item.product_id.v \notin seen
             THEN LET r == SaveLoop(Tail(items), sv + 1, seen \cup {item.product_id.v})
                  IN  [r EXCEPT !.productsToSave = <<item>> \o @]
             ELSE SaveLoop(Tail(items), sv, seen)

\* the handler has returned or thrown: its outcome stays on record until the
\* crawler gives the slot to the next request (locals that are no longer
\* read are dropped)
Finished(rec, outcome) ==
    [rec EXCEPT !.pc = "done", !.outcome = outcome, !.page = NoPage,
                !.request = NoRequest, !.detached = FALSE,
                !.internalCategoryId = Undefined, !.productsToSave = <<>>,
                !.extractedProducts = <<>>]

\* the crawler's handling of a request whose handler threw or timed out:
\* retried up to maxRequestRetries times, then given to failedRequestHandler
Reclaim(queue, request) ==
    IF request.retryCount < maxRequestRetries
    THEN Append(queue, Request(request.attempt, request.retryCount + 1))
    ELSE queue

\* the handler of slot h ends with an error ("failed": its own code threw;
\* "rejected": an awaited operation rejected): the request is reclaimed
\* unless the crawler has already given up on this call
Raise(h, rec, outcome) ==
    /\ handlers' = [handlers EXCEPT ![h] = Finished(rec, outcome)]
    /\ requestQueue' = IF rec.detached THEN requestQueue
                       ELSE Reclaim(requestQueue, rec.request)
    /\ UNCHANGED <<call, traversal, startUrl, RESULTS_WANTED, saved, seenIds, dataset, visits>>

\* if (saved < RESULTS_WANTED && extractedProducts.length > 0): the handler
\* goes on to look for a load-more control, or returns
Pagination(rec, sv) ==
    IF ~QuotaReached(sv) /\ Len(rec.extractedProducts) > 0
    THEN [rec EXCEPT !.pc = "hasMore", !.productsToSave = <<>>, !.page = NoPage,
                     !.extractedProducts = <<>>, !.tried = <<>>]
    ELSE Finished(rec, "completed")

\* the save loop and what follows it without the test for an empty result
TrackerNoEmptyBranch(h, rec, extractedProducts) ==
    LET r == SaveLoop(extractedProducts, saved, seenIds)
        found == [rec EXCEPT !.extractedProducts = extractedProducts,
                             !.internalCategoryId = Undefined]
    IN  /\ saved' = r.saved
        /\ seenIds' = r.seenIds
        /\ handlers' = [handlers EXCEPT ![h] =
               IF Len(r.productsToSave) > 0
               THEN [found EXCEPT !.pc = "push", !.productsToSave = r.productsToSave]
               ELSE Pagination(found, r.saved)]
        /\ UNCHANGED <<call, traversal, startUrl, RESULTS_WANTED, dataset, requestQueue, visits>>

\* from the end of the extraction strategies to the next await: the empty
\* outcome, or the save loop followed by pushData or the pagination test
Tracker(h, rec, extractedProducts) ==
    IF Len(extractedProducts) = 0
    THEN /\ handlers' = [handlers EXCEPT ![h] = Finished(rec, "no_products")]
         /\ UNCHANGED <<call, traversal, startUrl, RESULTS_WANTED, saved, seenIds, dataset, requestQueue, visits>>
    ELSE LET r == SaveLoop(extractedProducts, saved, seenIds)
             found == [rec EXCEPT !.extractedProducts = extractedProducts,
                                  !.internalCategoryId = Undefined]
         IN  /\ saved' = r.saved
             /\ seenIds' = r.seenIds
             /\ handlers' = [handlers EXCEPT ![h] =
                    IF Len(r.productsToSave) > 0
                    THEN [found EXCEPT !.pc = "push", !.productsToSave = r.productsToSave]
                    ELSE Pagination(found, r.saved)]
             /\ UNCHANGED <<call, traversal, startUrl, RESULTS_WANTED, dataset, requestQueue, visits>>

\* the result of the first page.evaluate: the embedded state and its
\* category id
PreloadedData(page) ==
    IF Truthy(page.PRELOADED_STATE)
    THEN [data |-> page.PRELOADED_STATE,
          categoryId |-> OptGet(Get(page.PRELOADED_STATE, "viewPayload"), "categoryId")]
    ELSE IF Truthy(page.zara)
    THEN [data |-> page.zara,
          categoryId |-> Or(OptGet(OptGet(Get(page.zara, "viewPayload"), "category"), "id"),
                            OptGet(Get(page.zara, "viewPayload"), "categoryId"))]
    ELSE [data |-> Null, categoryId |-> Undefined]

API_RETURNED == <<"A", "P", "I", " ", "r", "e", "t", "u", "r", "n", "e", "d", " ">>
FETCH_MESSAGE == <<"N", "e", "t", "w", "o", "r", "k", "E", "r", "r", "o", "r">>

\* the result of the API page.evaluate: a non-2xx status gives
\* { error: `API returned ${response.status}`, products: [] }, a fetch that
\* threw or a body without properties gives { error: e.message, products: [] }
ApiProducts(page) ==
    IF page.apiResponse.status = 0 \/ (page.apiResponse.ok /\ IsNullish(page.apiResponse.body))
    THEN [products |-> Arr(<<>>), data |-> Undefined, error |-> Str(FETCH_MESSAGE)]
    ELSE IF ~page.apiResponse.ok
    THEN [products |-> Arr(<<>>), data |-> Undefined,
          error |-> Str(API_RETURNED \o NatToString(page.apiResponse.status))]
    ELSE [products |-> Or(Or(Get(page.apiResponse.body, "productGroups"),
                             Get(page.apiResponse.body, "products")), Arr(<<>>)),
          data |-> page.apiResponse.body, error |-> Undefined]

RECURSIVE FirstItemList(_)
\* the loop over the ld+json scripts: the first ItemList's elements
FirstItemList(scripts) ==
    IF Len(scripts) = 0 THEN Arr(<<>>)
    ELSE IF scripts[1] = Throw \/ IsNullish(scripts[1]) THEN Arr(<<>>)
    ELSE IF Get(scripts[1], "@type") = Str(<<"I", "t", "e", "m", "L", "i", "s", "t">>)
            /\ Truthy(Get(scripts[1], "itemListElement"))
    THEN Get(scripts[1], "itemListElement")
    ELSE FirstItemList(Tail(scripts))

\* the result of the JSON-LD page.evaluate
JsonLdProducts(page) == FirstItemList(page.jsonLd)

Awaiting == {"load", "preloaded", "api", "jsonld", "push", "hasMore", "wait"}
\* a slot that runs no handler
Free(h) == handlers[h].pc \in {"idle", "done"}

\* the crawler takes the next request and calls the handler on its page
Start(h) ==
    /\ Len(requestQueue) > 0
    /\ visits < MaxVisits
    /\ Free(h)
    /\ \A g \in Handlers : g < h => ~Free(g)
    /\ handlers' = [handlers EXCEPT ![h] =
           [Idle EXCEPT !.pc = "load", !.request = Head(requestQueue)]]
    /\ requestQueue' = Tail(requestQueue)
    /\ visits' = visits + 1
    /\ UNCHANGED <<call, traversal, startUrl, RESULTS_WANTED, saved, seenIds, dataset>>

\* the page the site serves has loaded: the title test, then the first
\* page.evaluate
Load(h) ==
    /\ handlers[h].pc = "load"
    /\ \E page \in Pages :
         handlers' = [handlers EXCEPT ![h] =
             IF page.blocked THEN Finished(handlers[h], "blocked")
             ELSE [handlers[h] EXCEPT !.pc = "preloaded", !.page = page,
                                      !.tried = Append(@, "EMBEDDED_STATE")]]
    /\ UNCHANGED <<call, traversal, startUrl, RESULTS_WANTED, saved, seenIds, dataset, requestQueue, visits>>

\* Strategy 1: the products of the embedded state
Strategy1(page) ==
    IF Truthy(PreloadedData(page).data)
    THEN extractProductsFromData(PreloadedData(page).data)
    ELSE Ok(<<>>)

\* let internalCategoryId = preloadedData.categoryId || extractCategoryId(request.url)
InternalCategoryId(page) ==
    Or(PreloadedData(page).categoryId, extractCategoryId(startUrl))

\* Strategy 2 with the evaluate's error thrown again in the handler
Strategy2ThrowsOnError(page) ==
    IF ApiProducts(page).error # Undefined THEN Throw
    ELSE extractProductsFromData(IF Truthy(Length(ApiProducts(page).products))
                                 THEN ApiProducts(page).products ELSE ApiProducts(page).data)

\* Strategy 2: the products of the internal API's answer
Strategy2(page) ==
    LET apiProducts == ApiProducts(page)
    IN  IF Truthy(apiProducts.products)
        THEN extractProductsFromData(IF Truthy(Length(apiProducts.products))
                                     THEN apiProducts.products ELSE apiProducts.data)
        ELSE Ok(<<>>)

\* Strategy 3: the products of the JSON-LD item list, when it has elements
Strategy3(page) ==
    LET jsonLdProducts == JsonLdProducts(page)
    IN  IF Truthy(jsonLdProducts) /\ LengthPositive(jsonLdProducts)
        THEN normalizeProducts(jsonLdProducts)
        ELSE Ok(<<>>)

\* what the three strategies give on each page the site serves
Extraction ==
    [page \in Pages \cup {NoPage} |->
        [embedded |-> Strategy1(page), api |-> Strategy2(page),
         jsonLd |-> Strategy3(page)]]

\* the Strategy 2 condition without its emptiness test
TryApiAlways(extractedProducts, internalCategoryId) ==
    Truthy(internalCategoryId)

\* if (extractedProducts.length === 0 && internalCategoryId)
TryApi(extractedProducts, internalCategoryId) ==
    Len(extractedProducts) = 0 /\ Truthy(internalCategoryId)

\* the Strategy 3 condition without its emptiness test
TryJsonLdAlways(extractedProducts) == TRUE

\* if (extractedProducts.length === 0)
TryJsonLd(extractedProducts) == Len(extractedProducts) = 0

\* after Strategy 1 or 2 has left extractedProducts: the next strategy that
\* applies is awaited, or the handler goes on to the save loop
NextStrategy(h, rec, extractedProducts, apiDone) ==
    IF ~apiDone /\ TryApi(extractedProducts, InternalCategoryId(rec.page))
    THEN /\ handlers' = [handlers EXCEPT ![h] =
                [rec EXCEPT !.pc = "api", !.extractedProducts = extractedProducts,
                            !.internalCategoryId = InternalCategoryId(rec.page),
                            !.tried = Append(@, "INTERNAL_API")]]
         /\ UNCHANGED <<call, traversal, startUrl, RESULTS_WANTED, saved, seenIds, dataset, requestQueue, visits>>
    ELSE IF TryJsonLd(extractedProducts)
    THEN /\ handlers' = [handlers EXCEPT ![h] =
                [rec EXCEPT !.pc = "jsonld", !.extractedProducts = extractedProducts,
                            !.tried = Append(@, "STRUCTURED_MARKUP")]]
         /\ UNCHANGED <<call, traversal, startUrl, RESULTS_WANTED, saved, seenIds, dataset, requestQueue, visits>>
    ELSE Tracker(h, rec, extractedProducts)

\* the assignment of a strategy's products with the API's products taking
\* the place of the embedded state's
ExtractedApiWins(h, rec, products, apiDone) ==
    IF products = Throw THEN Raise(h, rec, "failed")
    ELSE NextStrategy(h, rec,
                      IF Len(products.v) > 0
                      THEN IF Extraction[rec.page].api # Throw
                              /\ Len(Extraction[rec.page].api.v) > 0
                           THEN Extraction[rec.page].api.v ELSE products.v
                      ELSE rec.extractedProducts, apiDone)

\* if (products.length > 0) extractedProducts = products, for the result of
\* Strategy 1 or 2; a throw inside the strategy ends the handler
Extracted(h, rec, products, apiDone) ==
    IF products = Throw THEN Raise(h, rec, "failed")
    ELSE NextStrategy(h, rec,
                      IF Len(products.v) > 0 THEN products.v
                      ELSE rec.extractedProducts, apiDone)

\* the embedded state has been read: Strategy 1, up to the next await
Preloaded(h) ==
    /\ handlers[h].pc = "preloaded"
    /\ Extracted(h, handlers[h], Extraction[handlers[h].page].embedded, FALSE)

\* the API has answered: Strategy 2, up to the next await
Api(h) ==
    /\ handlers[h].pc = "api"
    /\ Extracted(h, handlers[h], Extraction[handlers[h].page].api, TRUE)

\* extractedProducts = normalizeProducts(jsonLdProducts), when the item list
\* has elements; a throw inside it ends the handler
ExtractedLd(h, rec, jsonLdProducts, fromLd) ==
    IF fromLd = Throw THEN Raise(h, rec, "failed")
    ELSE Tracker(h, rec,
                 IF Truthy(jsonLdProducts) /\ LengthPositive(jsonLdProducts)
                 THEN fromLd.v ELSE rec.extractedProducts)

\* the JSON-LD scripts have been read: Strategy 3, up to the next await
JsonLd(h) ==
    /\ handlers[h].pc = "jsonld"
    /\ ExtractedLd(h, handlers[h], JsonLdProducts(handlers[h].page),
                   Extraction[handlers[h].page].jsonLd)

\* Dataset.pushData has stored the batch; then the pagination test
Push(h) ==
    /\ handlers[h].pc = "push"
    /\ dataset' = dataset \o handlers[h].productsToSave
    /\ handlers' = [handlers EXCEPT ![h] = Pagination(handlers[h], saved)]
    /\ UNCHANGED <<call, traversal, startUrl, RESULTS_WANTED, saved, seenIds, requestQueue, visits>>

\* the load-more probe has answered
HasMore(h) ==
    /\ handlers[h].pc = "hasMore"
    /\ \E hasMore \in BOOLEAN :
         handlers' = [handlers EXCEPT ![h] =
             IF hasMore THEN [handlers[h] EXCEPT !.pc = "wait"]
             ELSE Finished(handlers[h], "completed")]
    /\ UNCHANGED <<call, traversal, startUrl, RESULTS_WANTED, saved, seenIds, dataset, requestQueue, visits>>

\* after the wait: crawlerInstance.addRequests with attempt + 1
Enqueue(h) ==
    /\ handlers[h].pc = "wait"
    /\ requestQueue' = Append(requestQueue, Request(handlers[h].request.attempt + 1, 0))
    /\ handlers' = [handlers EXCEPT ![h] = Finished(handlers[h], "completed")]
    /\ UNCHANGED <<call, traversal, startUrl, RESULTS_WANTED, saved, seenIds, dataset, visits>>

\* the awaited operation rejects and the handler throws
Fail(h) ==
    /\ handlers[h].pc \in Awaiting
    /\ Raise(h, handlers[h], "rejected")

\* requestHandlerTimeoutSecs passes: the crawler reclaims the request while
\* the handler's promise chain goes on running
Timeout(h) ==
    /\ handlers[h].pc \in Awaiting
    /\ ~handlers[h].detached
    /\ handlers' = [handlers EXCEPT ![h].detached = TRUE]
    /\ requestQueue' = Reclaim(requestQueue, handlers[h].request)
    /\ UNCHANGED <<call, traversal, startUrl, RESULTS_WANTED, saved, seenIds, dataset, visits>>

Next ==
    \E h \in Handlers :
        \/ Start(h)
        \/ Load(h)
        \/ Preloaded(h)
        \/ Api(h)
        \/ JsonLd(h)
        \/ Push(h)
        \/ HasMore(h)
        \/ Enqueue(h)
        \/ Fail(h)
        \/ Timeout(h)

Spec == Init /\ [][Next]_vars

(***************************************************************************)
(* The run followed without a limit on its visits                          *)
(***************************************************************************)
\* a request leaves the queue for a free handler; the count of visits stops
\* at MaxVisits and the visits go on
StartUnlimited(h) ==
    /\ Len(requestQueue) > 0
    /\ Free(h)
    /\ \A g \in Handlers : g < h => ~Free(g)
    /\ handlers' = [handlers EXCEPT ![h] =
           [Idle EXCEPT !.pc = "load", !.request = Head(requestQueue)]]
    /\ requestQueue' = Tail(requestQueue)
    /\ visits' = IF visits < MaxVisits THEN visits + 1 ELSE visits
    /\ UNCHANGED <<call, traversal, startUrl, RESULTS_WANTED, saved, seenIds, dataset>>

\* addRequests([{ url: request.url, userData: { attempt: ... + 1 } }]); the
\* attempt number, which nothing reads, stops counting at MaxVisits
EnqueueUnlimited(h) ==
    /\ handlers[h].pc = "wait"
    /\ requestQueue' = Append(requestQueue,
           Request(IF handlers[h].request.attempt < MaxVisits
                   THEN handlers[h].request.attempt + 1
                   ELSE handlers[h].request.attempt, 0))
    /\ handlers' = [handlers EXCEPT ![h] = Finished(handlers[h], "completed")]
    /\ UNCHANGED <<call, traversal, startUrl, RESULTS_WANTED, saved, seenIds, dataset, visits>>

UnlimitedNext ==
    \E h \in Handlers :
        \/ StartUnlimited(h)
        \/ Load(h)
        \/ Preloaded(h)
        \/ Api(h)
        \/ JsonLd(h)
        \/ Push(h)
        \/ HasMore(h)
        \/ EnqueueUnlimited(h)

\* crawler.run when no await rejects and no handler is timed out: the
\* crawler goes on as long as a request waits or a handler runs
Unlimited == Init /\ [][UnlimitedNext]_vars /\ WF_vars(UnlimitedNext)

TypeOK ==
    /\ saved \in Nat
    /\ \A h \in Handlers : handlers[h].pc \in Awaiting \cup {"idle", "done"}

(***************************************************************************)
(* The helpers called on their own                                         *)
(***************************************************************************)
\* an object with the given properties, those given as Undefined left out
Props(all) == Obj([f \in {g \in DOMAIN all : all[g] # Undefined} |-> all[f]])

IdShortLetters == <<"A", "B", "1">>
IdVariantA == <<"1", "0", "0", "1", "-", "I", "2", "0", "2", "4">>
IdVariantB == <<"1", "0", "0", "1", "-", "I", "2", "0", "2", "5">>
IdTooLong == Id1 \o Id2 \o Id4 \o Id5 \o Id1 \o <<"9">>

IdInputs ==
    {Undefined, Str(<<>>), Num(0), Num(7), Num(123), Num(1001), Str(<<"7">>),
     Str(IdShortLetters), Str(Id1), Str(IdVariantA), Str(IdVariantB), Str(IdTooLong)}
NameInputs == {Undefined, Null, Str(<<>>), Str(<<"E">>)}

\* candidates that differ in id and name, with no other field or with all
IdNameCandidates ==
    {Props([id |-> id, name |-> name]) : id \in IdInputs, name \in NameInputs}
    \cup {Props([id |-> id, name |-> name, price |-> Num(25), currency |-> Str(<<"E", "U", "R">>),
                 image |-> Str(<<"/", "a">>), url |-> Str(<<"/", "p">>),
                 availability |-> Str(IN_STOCK), category |-> Str(<<"M">>),
                 subcategory |-> Str(<<"S">>), colors |-> Arr(<<>>)]) :
              id \in IdInputs, name \in NameInputs}

\* candidates whose id and name come from the fallback properties
FallbackCandidates ==
    {Props([productId |-> Str(Id2), title |-> Str(<<"T">>)]),
     Props([seo |-> Obj([keyword |-> Str(<<"s", "h", "i", "r", "t">>)])]),
     Props([seo |-> Obj([seoProductId |-> Str(Id4)])]),
     Props([detail |-> Obj([id |-> Str(Id5), displayName |-> Str(<<"D">>)])]),
     Props([detail |-> Obj([id |-> Str(Id5), name |-> Str(<<"D">>)])]),
     Props([item |-> Obj([productId |-> Str(Id1)])]),
     Props([commercialComponents |-> Arr(<<Obj([id |-> Num(1004)])>>), name |-> Str(<<"C">>)]),
     Null, Num(5), Str(<<"x">>), Arr(<<>>)}

\* the largest integer price tried
MaxPrice == 1100

\* candidates that differ in price: the integers from -2 to MaxPrice, a
\* decimal, a price in an object and a price in a string
PriceInputs ==
    {Num(n) : n \in (-2)..MaxPrice}
    \cup {[k |-> "num", v |-> 15005, d |-> 10], Obj([value |-> Num(3599)]),
          Str(<<"2", "9", ".", "9", "9", " ", "G", "B", "P">>)}
PriceCandidates ==
    {Props([id |-> Str(Id1), name |-> Str(<<"E">>), price |-> price]) : price \in PriceInputs}

\* an absolute, a protocol-relative, a root-relative and a path-relative
\* reference, each with a query string
UrlInputs ==
    {Undefined,
     Str(HTTPS_COLON \o <<"/", "/", "h", "/", "a", "?", "w", "=", "1">>),
     Str(<<"/", "/", "h", "/", "a", "?", "w", "=", "1">>),
     Str(<<"/", "a", "?", "w", "=", "1">>),
     Str(<<"a", "?", "w", "=", "1">>)}
UrlCandidates ==
    {Props([id |-> Str(Id1), name |-> Str(<<"E">>), image |-> image, url |-> url]) :
        image \in UrlInputs, url \in UrlInputs}

\* candidates with and without an id and a name of their own that hold a
\* detail, an item or a product
WrappedCandidates ==
    {Props([id |-> Str(Id1), name |-> Str(<<"E">>),
            detail |-> Obj([displayName |-> Str(<<"D">>)])]),
     Props([id |-> Str(Id1), name |-> Str(<<"E">>),
            detail |-> Obj([id |-> Str(Id5), name |-> Str(<<"D">>)])]),
     Props([id |-> Str(Id1), name |-> Str(<<"E">>),
            item |-> Obj([id |-> Str(Id4), name |-> Str(<<"I">>)])]),
     Props([id |-> Str(Id1), name |-> Str(<<"E">>),
            product |-> Obj([id |-> Str(Id2), name |-> Str(<<"P">>)])]),
     Props([detail |-> Obj([id |-> Str(Id5), name |-> Str(<<"D">>)]),
            item |-> Obj([id |-> Str(Id4), name |-> Str(<<"I">>)]),
            product |-> Obj([id |-> Str(Id2), name |-> Str(<<"P">>)])]),
     Props([item |-> Obj([id |-> Str(Id4), name |-> Str(<<"I">>)]),
            product |-> Obj([id |-> Str(Id2), name |-> Str(<<"P">>)])]),
     Props([product |-> Obj([id |-> Str(Id2), name |-> Str(<<"P">>)])]),
     Props([id |-> Str(Id1),
            product |-> Obj([id |-> Str(Id2), name |-> Str(<<"P">>)])])}

\* candidates with and without availability and inStock
AvailabilityCandidates ==
    {Props([id |-> Str(Id1), name |-> Str(<<"E">>), availability |-> a, inStock |-> i]) :
        a \in {Undefined, Str(<<"l", "o", "w">>)},
        i \in {Undefined, Bool(TRUE), Bool(FALSE)}}

Candidates ==
    IdNameCandidates \cup FallbackCandidates \cup PriceCandidates \cup UrlCandidates
    \cup WrappedCandidates \cup AvailabilityCandidates

\* the arguments normalizeProducts is called with
Batches ==
    {Arr(<<c>>) : c \in Candidates}
    \cup {Arr(<<Props([id |-> Str(IdVariantA), name |-> Str(<<"E">>)]), c>>) :
              c \in {Props([id |-> id, name |-> Str(<<"E">>)]) :
                         id \in {Str(Id1), Str(IdVariantA), Str(IdVariantB)}}}
    \cup {Arr(<<>>), Null, Undefined, Str(Id1), Obj([id |-> Str(Id1)])}

\* the payloads extractProductsFromData is called with: products at and
\* away from the known paths, groups, and payloads without products
Payloads ==
    {Null, Undefined, Num(5), Num(0), Str(<<"x">>), Bool(TRUE), Obj(<<>>),
     Arr(<<>>), Arr(<<Null>>), Arr(<<Num(5)>>), Arr(<<Str(<<"x">>)>>),
     Arr(<<Obj(<<>>)>>), Arr(<<MediaFormat>>),
     Arr(<<EmbProduct(Id1), Null>>), Arr(<<EmbProduct(Id1), EmbProduct(Id2)>>),
     Arr(<<Obj([x |-> Num(1)]), EmbProduct(Id2)>>),
     Groups(<<EmbProduct(Id1)>>), Groups(<<>>), Groups(<<MediaFormat>>),
     Arr(<<Obj([elements |-> Arr(<<Null>>)])>>),
     Arr(<<Obj([commercialComponents |-> Arr(<<EmbProduct(Id4)>>)]),
           Obj([elements |-> Arr(<<EmbProduct(Id5)>>)])>>),
     Obj([productGroups |-> Groups(<<EmbProduct(Id1), EmbProduct(Id2)>>)]),
     Obj([viewPayload |-> Obj([productGroups |-> Groups(<<EmbProduct(Id1)>>)])]),
     Obj([grid |-> Obj([products |-> Arr(<<EmbProduct(Id1)>>)])]),
     Obj([productList |-> Arr(<<EmbProduct(Id2)>>)]),
     Obj([products |-> Arr(<<EmbProduct(Id4)>>)]),
     Obj([category |-> Obj([products |-> Arr(<<EmbProduct(Id5)>>)])]),
     Obj([productList |-> Arr(<<MediaFormat>>), products |-> Arr(<<EmbProduct(Id4)>>)]),
     Obj([products |-> Arr(<<>>)]), Obj([products |-> Arr(<<Null>>)]),
     Obj([products |-> Arr(<<MediaFormat>>)]), Obj([products |-> Str(<<"x">>)]),
     Obj([data |-> Obj([products |-> Arr(<<EmbProduct(Id1)>>)])]),
     Obj([items |-> Arr(<<EmbProduct(Id2)>>)]),
     Obj([a |-> Obj([b |-> Obj([c |-> Arr(<<EmbProduct(Id4)>>)])])]),
     Obj([products |-> Arr(<<MediaFormat>>), items |-> Arr(<<EmbProduct(Id5)>>)]),
     EmbeddedTwo, EmbeddedMedia, EmbeddedMediaCat, EmbeddedBad}

GroupId1 == <<"9", "0", "0", "1">>
GroupId2 == <<"9", "0", "0", "2">>
\* a group that has an id and a name of its own
NamedGroup(id, key, members) ==
    Obj((key :> Arr(members)) @@ [id |-> Str(id), name |-> Str(<<"G">>)])

\* arrays whose first element is a group: named groups, a product between
\* groups, an empty group, a group inside a product array, a null member
GroupPayloads ==
    {Arr(<<NamedGroup(GroupId1, "elements", <<EmbProduct(Id1)>>)>>),
     Arr(<<NamedGroup(GroupId1, "commercialComponents", <<EmbProduct(Id1), EmbProduct(Id2)>>)>>),
     Arr(<<NamedGroup(GroupId1, "commercialComponents", <<EmbProduct(Id2)>>),
           EmbProduct(Id4),
           NamedGroup(GroupId2, "elements", <<EmbProduct(Id1)>>)>>),
     Arr(<<NamedGroup(GroupId1, "elements", <<>>)>>),
     Arr(<<NamedGroup(GroupId1, "elements",
               <<NamedGroup(GroupId2, "commercialComponents", <<EmbProduct(Id5)>>)>>)>>),
     Arr(<<NamedGroup(GroupId1, "elements",
               <<EmbProduct(Id1),
                 NamedGroup(GroupId2, "commercialComponents", <<EmbProduct(Id5)>>)>>)>>),
     Arr(<<NamedGroup(GroupId1, "elements", <<EmbProduct(Id1)>>), Null>>),
     Arr(<<NamedGroup(GroupId1, "commercialComponents",
               <<EmbProduct(Id2), MediaFormat, EmbProduct(Id1)>>),
           EmbProduct(Id5),
           NamedGroup(GroupId2, "elements",
               <<Obj([commercialComponents |-> Arr(<<EmbProduct(Id4)>>)])>>)>>),
     Obj([productGroups |->
             Arr(<<NamedGroup(GroupId1, "elements", <<EmbProduct(Id4)>>)>>)]),
     Obj([productGroups |-> Groups(<<EmbProduct(Id1)>>),
          products |-> Arr(<<EmbProduct(Id2)>>)]),
     Obj([productGroups |-> Groups(<<>>), grid |-> Obj([products |-> Arr(<<MediaFormat>>)]),
          category |-> Obj([products |-> Arr(<<EmbProduct(Id5)>>)])])}

\* the values of the results_wanted input: absent, null, numbers below 1,
\* whole and fractional numbers, strings and a boolean
TargetInputs ==
    {Undefined, Null, NaN, Num(-3), Num(0), Num(1), Num(2), Num(20),
     [k |-> "num", v |-> 5, d |-> 10], [k |-> "num", v |-> 25, d |-> 10],
     Str(<<"5">>), Str(<<"a", "b", "c">>), Str(<<>>), Bool(TRUE), Obj(<<>>)}

\* the call has not returned
Pending == [k |-> "pending"]

Calls ==
    [fn : {"normalizeProducts"}, arg : Batches, ret : {Pending}]
    \cup [fn : {"extractProductsFromData"}, arg : Payloads \cup GroupPayloads, ret : {Pending}]
    \cup [fn : {"RESULTS_WANTED"}, arg : TargetInputs, ret : {Pending}]

\* a property that holds the array object with the given number, an
\* object that may also hold the property itself
Ref(n) == [k |-> "ref", v |-> n]

\* object graphs, as the array objects they are made of; the first is the
\* payload: a group whose elements is the payload itself, two arrays that
\* hold each other, an array reached twice, arrays with products and other
\* items, and an array with a null item below a group
Heaps ==
    {<<Arr(<<Obj([elements |-> Ref(1)])>>)>>,
     <<Arr(<<Obj([elements |-> Ref(2)])>>),
       Arr(<<EmbProduct(Id1), Obj([commercialComponents |-> Ref(1)])>>)>>,
     <<Arr(<<Obj([elements |-> Ref(2)]), Obj([elements |-> Ref(2)])>>),
       Arr(<<Obj([commercialComponents |-> Ref(3)])>>),
       Arr(<<EmbProduct(Id1), EmbProduct(Id2)>>)>>,
     <<Arr(<<Obj([x |-> Num(1)]), EmbProduct(Id2), Obj([elements |-> Ref(2)]),
             Obj([commercialComponents |-> Arr(<<EmbProduct(Id4)>>)])>>),
       Arr(<<>>)>>,
     <<Arr(<<Obj([elements |-> Ref(2)])>>),
       Arr(<<Obj([x |-> Num(1)]), Null>>)>>,
     <<Arr(<<Obj([x |-> Num(1)]), BadUrlProduct(Id4)>>)>>,
     <<Arr(<<EmbProduct(Id5)>>)>>}

\* the calls of extractProductsFromData that may be nested before the
\* engine raises a RangeError
MaxCallStack == 4
RangeError == [k |-> "rangeError"]

\* the locals of a call of extractProductsFromData that is in its loop
Frame(data) == [data |-> data, i |-> 1, flattened |-> <<>>]

\* a helper is about to be called on one of its arguments; no crawl runs
HelperInit ==
    /\ \/ call \in Calls /\ traversal = NoTraversal
       \/ /\ call = NoCall
          /\ traversal \in [heap : Heaps, stack : {<<>>}, ret : {Pending}]
    /\ startUrl = UrlWithoutId
    /\ RESULTS_WANTED = Num(DefaultResultsWanted)
    /\ saved = 0
    /\ seenIds = {}
    /\ dataset = <<>>
    /\ requestQueue = <<>>
    /\ visits = 0
    /\ handlers = [h \in Handlers |-> Idle]

\* normalizeProducts(products) returns or throws
CallNormalizeProducts ==
    /\ call.fn = "normalizeProducts"
    /\ call.ret = Pending
    /\ call' = [call EXCEPT !.ret = normalizeProducts(call.arg)]
    /\ UNCHANGED <<crawl, traversal>>

\* extractProductsFromData(data) returns or throws
CallExtractProductsFromData ==
    /\ call.fn = "extractProductsFromData"
    /\ call.ret = Pending
    /\ call' = [call EXCEPT !.ret = extractProductsFromData(call.arg)]
    /\ UNCHANGED <<crawl, traversal>>

\* a call made by the innermost running call, or the outermost call, has
\* given result: an error unwinds every call, a list goes to flattened.push
\* and the loop moves on
Returning(t, result) ==
    IF result \in {Throw, RangeError} THEN [t EXCEPT !.stack = <<>>, !.ret = result]
    ELSE IF Len(t.stack) = 0 THEN [t EXCEPT !.ret = result]
    ELSE [t EXCEPT !.stack[Len(t.stack)] =
              [@ EXCEPT !.i = @ + 1, !.flattened = @ \o result.v]]

\* extractProductsFromData is entered on array object m: a product array is
\* normalized at once, any other array starts the flattening loop
Entered(t, m) ==
    IF Len(t.stack) >= MaxCallStack THEN Returning(t, RangeError)
    ELSE IF isProductArray(t.heap[m]) THEN Returning(t, normalizeProducts(t.heap[m]))
    ELSE [t EXCEPT !.stack = Append(@, Frame(m))]

\* extractProductsFromData(value) called from the flattening loop
Recursed(t, value) ==
    IF value.k = "ref" THEN Entered(t, value.v)
    ELSE Returning(t, extractProductsFromData(value))

\* the payload is handed to extractProductsFromData
Locate ==
    /\ traversal.ret = Pending
    /\ Len(traversal.stack) = 0
    /\ traversal' = Entered(traversal, 1)
    /\ UNCHANGED <<crawl, call>>

\* one pass of the flattening loop of the innermost call
FlattenStep ==
    /\ Len(traversal.stack) > 0
    /\ LET top == traversal.stack[Len(traversal.stack)]
           data == traversal.heap[top.data]
       IN  /\ top.i <= Len(data.v)
           /\ traversal' =
                 LET item == data.v[top.i]
                 IN  IF IsNullish(item) THEN Returning(traversal, Throw)
                     ELSE IF Truthy(Get(item, "elements"))
                     THEN Recursed(traversal, Get(item, "elements"))
                     ELSE IF Truthy(Get(item, "commercialComponents"))
                     THEN Recursed(traversal, Get(item, "commercialComponents"))
                     ELSE Returning(traversal, normalizeProducts(Arr(<<item>>)))
    /\ UNCHANGED <<crawl, call>>

\* the flattening loop of the innermost call is over: return flattened
FlattenReturn ==
    /\ Len(traversal.stack) > 0
    /\ LET top == traversal.stack[Len(traversal.stack)]
       IN  /\ top.i > Len(traversal.heap[top.data].v)
           /\ traversal' =
                 Returning([traversal EXCEPT !.stack = SubSeq(@, 1, Len(@) - 1)],
                           Ok(top.flattened))
    /\ UNCHANGED <<crawl, call>>

\* const RESULTS_WANTED = ... for a value of the results_wanted input
ComputeResultsWanted ==
    /\ call.fn = "RESULTS_WANTED"
    /\ call.ret = Pending
    /\ call' = [call EXCEPT !.ret = ResultsWanted(call.arg)]
    /\ UNCHANGED <<crawl, traversal>>

HelperNext ==
    \/ CallNormalizeProducts
    \/ CallExtractProductsFromData
    \/ ComputeResultsWanted
    \/ Locate
    \/ FlattenStep
    \/ FlattenReturn

Helpers == HelperInit /\ [][HelperNext]_vars

(***************************************************************************)
(* Properties                                                              *)
(***************************************************************************)
\* the batch a handler has given to Dataset.pushData and is waiting on
InFlight(h) == IF handlers[h].pc = "push" THEN handlers[h].productsToSave ELSE <<>>

\* the places a record handed to the sink is found: <<0, i>> is the i-th
\* stored record, <<h, i>> the i-th record of handler h's pending batch
HandedOver ==
    {<<0, i>> : i \in 1..Len(dataset)}
    \cup UNION {{<<h, i>> : i \in 1..Len(InFlight(h))} : h \in Handlers}
RecordAt(p) == IF p[1] = 0 THEN dataset[p[2]] ELSE InFlight(p[1])[p[2]]

\* C1: over a run of page visits no two records stored by the sink share a
\* product_id, and saved never exceeds RESULTS_WANTED.
C1_UniqueIdsWithinTarget ==
    /\ \A i, j \in 1..Len(dataset) :
          i # j => dataset[i].product_id # dataset[j].product_id
    /\ saved * RESULTS_WANTED.d <= RESULTS_WANTED.v

\* two visits have stored records, the second after skipping ids it had seen
C1_Witness ==
    /\ visits = 2
    /\ Len(dataset) = 5
    /\ dataset[1].name = Str(<<"E">>)
    /\ dataset[5].name = Str(<<"A">>)

\* C2: however concurrent handlers interleave at their awaits, no two of
\* them accept the same product_id, and the records accepted by all of them
\* together never outnumber the target.
C2_AtomicAcceptance ==
    /\ \A p, q \in HandedOver :
          p # q => RecordAt(p).product_id # RecordAt(q).product_id
    /\ Cardinality(HandedOver) * RESULTS_WANTED.d <= RESULTS_WANTED.v

\* two handlers wait on pushData at once, each with a batch it accepted
C2_Witness ==
    \E g, h \in Handlers :
        /\ g # h
        /\ Len(InFlight(g)) > 0
        /\ Len(InFlight(h)) > 0

\* the step is handler h's own continuation after its awaited operation has
\* resolved (not a rejection of that operation, not the crawler's timeout)
Continues(h) ==
    /\ handlers'[h] # handlers[h]
    /\ handlers'[h].outcome # "rejected"
    /\ handlers'[h].detached = handlers[h].detached

\* C3: when a page visit is aborted part-way (pushData rejects, or the
\* handler is timed out) seenIds holds none of the ids that visit accepted:
\* the tracker state is as it was before the visit.
C3_AbortLeavesTrackerUnchanged ==
    [][\A h \in Handlers :
          LET rejected == handlers'[h].pc = "done" /\ handlers'[h].outcome = "rejected"
              timedOut == ~handlers[h].detached /\ handlers'[h].detached
          IN  (handlers[h].pc \in Awaiting /\ (rejected \/ timedOut))
              => \A i \in 1..Len(handlers[h].productsToSave) :
                     handlers[h].productsToSave[i].product_id.v \notin seenIds']_vars

\* the products the strategy that h awaits gives once it resolves
StrategyResult(h) ==
    CASE handlers[h].pc = "preloaded" -> Extraction[handlers[h].page].embedded
      [] handlers[h].pc = "api" -> Extraction[handlers[h].page].api
      [] handlers[h].pc = "jsonld" -> Extraction[handlers[h].page].jsonLd
      [] OTHER -> Ok(<<>>)

\* h goes through the save loop in this step, on a batch that is not empty
TrackerRuns(h) ==
    /\ Continues(h)
    /\ StrategyResult(h) # Throw
    /\ Len(StrategyResult(h).v) > 0

\* the positions of a batch whose id is not in seen, each id at its first
\* position only
NewAt(batch, seen) ==
    {i \in 1..Len(batch) :
        /\ batch[i].product_id.v \notin seen
        /\ \A j \in 1..(i - 1) : batch[j].product_id # batch[i].product_id}

\* the records of batch at the n least positions of new, in input order
FirstOf(batch, new, n) ==
    LET taken == {i \in new : Cardinality({j \in new : j < i}) < n}
    IN  [k \in 1..n |->
            batch[CHOOSE i \in taken : Cardinality({j \in taken : j < i}) = k - 1]]

\* C4: for one batch the tracker outputs, in input order, the first
\* min(new distinct ids, target - saved) records whose id is new; saved and
\* seenIds grow by exactly that number.
C4_TrackerOutput ==
    [][\A h \in Handlers :
          TrackerRuns(h) =>
              LET batch == StrategyResult(h).v
                  new == NewAt(batch, seenIds)
                  room == RESULTS_WANTED.v - saved
                  n == IF Cardinality(new) < room THEN Cardinality(new) ELSE room
                  output == FirstOf(batch, new, n)
              IN  /\ RESULTS_WANTED.d = 1
                  /\ saved' = saved + n
                  /\ seenIds' = seenIds \cup {output[k].product_id.v : k \in 1..n}
                  /\ Cardinality(seenIds') = Cardinality(seenIds) + n
                  /\ n > 0 => /\ handlers'[h].pc = "push"
                              /\ handlers'[h].productsToSave = output
                  /\ n = 0 => handlers'[h].pc # "push"]_vars

\* target 2 and a batch with five new ids: the first two are the output
C4_Witness ==
    \E h \in Handlers :
        /\ handlers[h].pc = "push"
        /\ RESULTS_WANTED = Num(2)
        /\ Cardinality(NewAt(handlers[h].extractedProducts, {})) = 5
        /\ handlers[h].productsToSave = SubSeq(handlers[h].extractedProducts, 1, 2)
        /\ seenIds = {handlers[h].productsToSave[k].product_id.v : k \in 1..2}

\* h awaits the embedded state of a page whose Strategy 1 gives products
EmbeddedYields(h) ==
    /\ handlers[h].pc = "preloaded"
    /\ Extraction[handlers[h].page].embedded # Throw
    /\ Len(Extraction[handlers[h].page].embedded.v) > 0

\* C5 as stated: when the embedded state yields products, the running total
\* (even with them counted) is below the target and a category id is known,
\* the internal API is attempted next.
C5_ApiForcedBelowTarget ==
    [][\A h \in Handlers :
          (/\ Continues(h)
           /\ EmbeddedYields(h)
           /\ ~QuotaReached(saved + Len(Extraction[handlers[h].page].embedded.v))
           /\ Truthy(InternalCategoryId(handlers[h].page)))
          => handlers'[h].pc = "api"]_vars

\* C5 as the code has it: the internal API is attempted exactly when the
\* embedded state yielded no product and a category id is known; when the
\* embedded state yielded products no other source is tried, whatever the
\* running total.
C5_ApiOnlyWhenEmbeddedEmpty ==
    [][\A h \in Handlers :
          (/\ Continues(h)
           /\ handlers[h].pc = "preloaded"
           /\ Extraction[handlers[h].page].embedded # Throw)
          => /\ handlers'[h].pc = "api"
                  <=> /\ Len(Extraction[handlers[h].page].embedded.v) = 0
                      /\ Truthy(InternalCategoryId(handlers[h].page))
             /\ EmbeddedYields(h) => handlers'[h].pc \notin {"api", "jsonld"}]_vars

\* a visit has gone from the embedded state's products to the save loop with
\* a category id known and the total still below the target
C5_Witness ==
    \E h \in Handlers :
        /\ handlers[h].pc = "push"
        /\ handlers[h].tried = <<"EMBEDDED_STATE">>
        /\ Truthy(InternalCategoryId(handlers[h].page))
        /\ ~QuotaReached(saved)

\* C6 as stated: a record that a visit hands over with an id that the
\* internal API of its page also gives carries the API's field values.
C6_ApiValuesWin ==
    [][\A h \in Handlers :
          (/\ Continues(h)
           /\ EmbeddedYields(h)
           /\ Extraction[handlers[h].page].api # Throw)
          => LET output == handlers'[h].productsToSave
                 fromApi == Extraction[handlers[h].page].api.v
             IN  \A i \in 1..Len(output) : \A j \in 1..Len(fromApi) :
                     output[i].product_id = fromApi[j].product_id
                         => output[i] = fromApi[j]]_vars

\* C6 as the code has it: when the embedded state yields products the API is
\* not fetched and nothing is merged; every record handed over is a record of
\* the embedded state, one for each id, also for an id the API carries too.
C6_EmbeddedValuesKept ==
    [][\A h \in Handlers :
          (Continues(h) /\ EmbeddedYields(h))
          => LET output == handlers'[h].productsToSave
                 embedded == Extraction[handlers[h].page].embedded.v
             IN  /\ handlers'[h].pc # "api"
                 /\ handlers'[h].pc = "push" => handlers'[h].extractedProducts = embedded
                 /\ \A i \in 1..Len(output) :
                        /\ \E j \in 1..Len(embedded) : output[i] = embedded[j]
                        /\ \A k \in 1..Len(output) :
                               output[k].product_id = output[i].product_id => k = i]_vars

\* a visit hands over a record of the embedded state whose id the API of the
\* same page gives with other field values
C6_Witness ==
    \E h \in Handlers :
        /\ handlers[h].pc = "push"
        /\ handlers[h].tried = <<"EMBEDDED_STATE">>
        /\ Extraction[handlers[h].page].api # Throw
        /\ \E i \in 1..Len(handlers[h].productsToSave) :
             \E j \in 1..Len(Extraction[handlers[h].page].api.v) :
                 LET record == handlers[h].productsToSave[i]
                     fromApi == Extraction[handlers[h].page].api.v[j]
                 IN  /\ record.product_id = fromApi.product_id
                     /\ record.name # fromApi.name
                     /\ record.price # fromApi.price

\* C7: the sources are consulted in the order embedded state, internal API,
\* structured markup; the markup is consulted only after every source before
\* it gave no product; when the API gives n records after an empty embedded
\* state the visit's result is those n records and the markup is not
\* consulted.
C7_SourceOrder ==
    [][\A h \in Handlers :
          /\ handlers'[h].tried \in
                 { <<>>,
                   <<"EMBEDDED_STATE">>,
                   <<"EMBEDDED_STATE", "INTERNAL_API">>,
                   <<"EMBEDDED_STATE", "STRUCTURED_MARKUP">>,
                   <<"EMBEDDED_STATE", "INTERNAL_API", "STRUCTURED_MARKUP">> }
          /\ (handlers'[h].pc = "jsonld" /\ handlers[h].pc # "jsonld")
             => /\ Extraction[handlers[h].page].embedded = Ok(<<>>)
                /\ handlers[h].pc = "api" => Extraction[handlers[h].page].api = Ok(<<>>)
          /\ (/\ Continues(h)
              /\ handlers[h].pc = "api"
              /\ Extraction[handlers[h].page].api \notin {Throw, Ok(<<>>)})
             => /\ Extraction[handlers[h].page].embedded = Ok(<<>>)
                /\ handlers'[h].pc # "jsonld"
                /\ \A i \in 1..Len(handlers'[h].tried) :
                       handlers'[h].tried[i] # "STRUCTURED_MARKUP"
                /\ handlers'[h].pc = "push"
                   => handlers'[h].extractedProducts = Extraction[handlers[h].page].api.v]_vars

\* the embedded state was empty, the API gave six candidates, and the visit's
\* result is their six records with the markup not consulted
C7_Witness ==
    \E h \in Handlers :
        /\ handlers[h].pc = "push"
        /\ handlers[h].tried = <<"EMBEDDED_STATE", "INTERNAL_API">>
        /\ Len(handlers[h].page.jsonLd) > 0
        /\ Len(handlers[h].extractedProducts) = 6
        /\ handlers[h].extractedProducts = Extraction[handlers[h].page].api.v

\* C8: when all three sources give no product (the API counts when a
\* category id is known) the visit ends normally with the empty outcome:
\* nothing is handed to the dataset, no request is enqueued, and seenIds and
\* saved are unchanged.
C8_EmptyOutcome ==
    [][\A h \in Handlers :
          (/\ Continues(h)
           /\ handlers[h].pc = "jsonld"
           /\ Extraction[handlers[h].page].embedded = Ok(<<>>)
           /\ Truthy(InternalCategoryId(handlers[h].page))
              => Extraction[handlers[h].page].api = Ok(<<>>)
           /\ Extraction[handlers[h].page].jsonLd = Ok(<<>>))
          => /\ handlers'[h].pc = "done"
             /\ handlers'[h].outcome = "no_products"
             /\ UNCHANGED <<dataset, requestQueue, saved, seenIds>>]_vars

\* a visit that consulted all three sources has ended with the empty outcome
C8_Witness ==
    \E h \in Handlers :
        /\ handlers[h].pc = "done"
        /\ handlers[h].outcome = "no_products"
        /\ handlers[h].tried = <<"EMBEDDED_STATE", "INTERNAL_API", "STRUCTURED_MARKUP">>
        /\ dataset = <<>>
        /\ saved = 0

\* C9: once saved has reached RESULTS_WANTED no handler gives a batch to
\* Dataset.pushData and no pagination request (attempt + 1, not a retry)
\* joins the queue.
C9_NothingAfterTarget ==
    [][QuotaReached(saved) =>
          /\ \A h \in Handlers : handlers'[h].pc = "push" => handlers[h].pc = "push"
          /\ ~(/\ Len(requestQueue') > Len(requestQueue)
               /\ requestQueue'[Len(requestQueue')].retryCount = 0)]_vars

\* C10: when the normalization of one candidate of the embedded product
\* array fails, the visit does not end with that error and its result is
\* the records of the remaining candidates.
C10_CandidateFailureIsLocal ==
    [][\A h \in Handlers :
          LET products == Get(PreloadedData(handlers[h].page).data, "products")
              mapped == MapItems(products.v)
              others == SelectSeq(mapped, LAMBDA p : p # Throw /\ KeepRecord(p))
          IN  (/\ Continues(h)
               /\ handlers[h].pc = "preloaded"
               /\ isProductArray(products)
               /\ \E i \in 1..Len(mapped) : mapped[i] = Throw)
              => /\ handlers'[h].outcome # "failed"
                 /\ handlers'[h].pc = "push"
                    => handlers'[h].extractedProducts =
                           [i \in 1..Len(others) |-> others[i].v]]_vars

\* the helper fn, called on its own, has returned or thrown
Returned(fn) == call.fn = fn /\ call.ret # Pending

\* normalizeProducts has been called on a batch of one candidate, an object
\* that is not a wrapper around another
OneFlat ==
    /\ Returned("normalizeProducts")
    /\ IsArray(call.arg) /\ Len(call.arg.v) = 1
    /\ call.arg.v[1].k = "obj"
    /\ Unwrap(call.arg.v[1]) = call.arg.v[1]

\* the records of the normalized output all have a product_id and a name
IdAndNamePresent ==
    (Returned("normalizeProducts") /\ IsArray(call.arg))
        => /\ call.ret # Throw
           /\ Len(call.ret.v) <= Len(call.arg.v)
           /\ \A i \in 1..Len(call.ret.v) :
                 /\ IsString(call.ret.v[i].product_id)
                 /\ Len(call.ret.v[i].product_id.v) > 0
                 /\ Truthy(call.ret.v[i].name)

\* a candidate without an id or a name after the fallbacks is not in the output
NoIdOrNameNoRecord ==
    (Returned("normalizeProducts") /\ IsArray(call.arg) /\ Len(call.arg.v) = 1
       /\ TypeofObject(call.arg.v[1]) /\ Truthy(call.arg.v[1])
       /\ \/ Len(ProductId(Unwrap(call.arg.v[1]))) = 0
          \/ ~Truthy(Name(Unwrap(call.arg.v[1]))))
        => call.ret = Ok(<<>>)

\* the other properties of the candidate that may be absent
OtherFields == {"price", "currency", "image", "url", "availability", "category",
                "subcategory", "colors"}
\* the field of the record that a property of the candidate goes to
FieldOf(f) == CASE f = "image" -> "image_url" [] f = "url" -> "product_url" [] OTHER -> f

DefaultOf(f, id) ==
    CASE f = "currency" -> Str(GBP)
      [] f = "availability" -> Str(OUT_OF_STOCK)
      [] f = "url" -> Str(SITE_HOST \o PRODUCT_PATH \o id \o DOT_HTML)
      [] OTHER -> Null

OneShortId ==
    /\ OneFlat
    /\ Truthy(Get(call.arg.v[1], "id"))
    /\ Len(JsString(Get(call.arg.v[1], "id"))) < MinIdLength

\* C12 (as stated): a candidate whose id is shorter than the minimum length
\* is rejected whatever its characters are.
C12_ShortIdRejected ==
    OneShortId => call.ret = Ok(<<>>)

\* C12 (amended): a candidate whose id is shorter than the minimum length
\* and made of digits only is rejected, the media-format entry {id: 7,
\* name: null} among them; a shorter id with another character is accepted
\* when the candidate has a name.
C12_ShortNumericIdRejected ==
    /\ (OneShortId /\ \A i \in 1..Len(JsString(Get(call.arg.v[1], "id"))) :
                         JsString(Get(call.arg.v[1], "id"))[i] \in DigitSet)
          => call.ret = Ok(<<>>)
    /\ (Returned("normalizeProducts") /\ call.arg = Arr(<<MediaFormat>>))
          => call.ret = Ok(<<>>)
    /\ (OneShortId /\ Truthy(Get(call.arg.v[1], "name"))
         /\ \E i \in 1..Len(JsString(Get(call.arg.v[1], "id"))) :
                   JsString(Get(call.arg.v[1], "id"))[i] \notin DigitSet)
          => /\ call.ret # Throw
             /\ Len(call.ret.v) = 1
             /\ call.ret.v[1].product_id = Str(JsString(Get(call.arg.v[1], "id")))

\* the media-format entry has been normalized to nothing
C12_Witness ==
    /\ Returned("normalizeProducts")
    /\ call.arg = Arr(<<MediaFormat>>)
    /\ call.ret = Ok(<<>>)

\* the position at which s ends in -I<digits>, 0 when it does not
VariantSuffixAt(s) ==
    LET at == {i \in 1..(Len(s) - 2) :
                 /\ s[i] = "-" /\ s[i + 1] = "I"
                 /\ \A j \in (i + 2)..Len(s) : s[j] \in DigitSet}
    IN  IF at = {} THEN 0 ELSE CHOOSE i \in at : \A j \in at : j <= i

\* s without its variant suffix
WithoutVariantSuffix(s) ==
    IF VariantSuffixAt(s) = 0 THEN s ELSE SubSeq(s, 1, VariantSuffixAt(s) - 1)

\* C13: no product_id of the normalized output ends in -I<digits>; two
\* candidates whose ids differ only by such a suffix get the same product_id
\* and the save loop accepts at most one of them.
C13_VariantSuffixStripped ==
    (Returned("normalizeProducts") /\ IsArray(call.arg) /\ call.ret # Throw)
        => /\ \A i \in 1..Len(call.ret.v) :
                 VariantSuffixAt(call.ret.v[i].product_id.v) = 0
           /\ (/\ Len(call.arg.v) = 2
               /\ \A i \in 1..2 : IsString(Get(call.arg.v[i], "id"))
               /\ WithoutVariantSuffix(Get(call.arg.v[1], "id").v)
                    = WithoutVariantSuffix(Get(call.arg.v[2], "id").v))
                => /\ \A i, j \in 1..Len(call.ret.v) :
                         call.ret.v[i].product_id = call.ret.v[j].product_id
                   /\ Len(SaveLoop(call.ret.v, 0, {}).productsToSave) <= 1

\* normalizeProducts has been called on a batch of one flat candidate whose
\* price is an integer, and has returned its record
OneIntegerPrice ==
    /\ OneFlat
    /\ Get(call.arg.v[1], "price").k = "num"
    /\ Get(call.arg.v[1], "price").d = 1
    /\ call.ret # Throw
    /\ Len(call.ret.v) = 1

\* C14 (as stated): an integer price above 100 is divided by 100, an integer
\* price of 100 or less is left as it is.
C14_MinorUnitsAbove100 ==
    OneIntegerPrice
        => LET price == Get(call.arg.v[1], "price").v
               out == call.ret.v[1].price
           IN  IF price > 100
               THEN out.k = "num" /\ out.v * 100 = price * out.d
               ELSE out = Num(price)

\* C14 (amended): an integer price above 1000 is divided by 100, an integer
\* price of 1000 or less other than 0 is left as it is, and a price of 0
\* counts as absent and gives null.
C14_MinorUnitsAbove1000 ==
    OneIntegerPrice
        => LET price == Get(call.arg.v[1], "price").v
               out == call.ret.v[1].price
           IN  CASE price > CentsThreshold
                      -> out.k = "num" /\ out.v * 100 = price * out.d
                 [] price = 0 -> out = Null
                 [] OTHER -> out = Num(price)

\* the price 1001 has been normalized to 10.01
C14_Witness ==
    /\ OneIntegerPrice
    /\ Get(call.arg.v[1], "price") = Num(1001)
    /\ call.ret.v[1].price = [k |-> "num", v |-> 1001, d |-> 100]

\* s is an absolute http or https URL
IsAbsoluteUrl(s) ==
    \/ StartsWith(s, HTTPS_COLON \o <<"/", "/">>) /\ Len(s) > Len(HTTPS_COLON) + 2
    \/ StartsWith(s, HTTP \o <<":", "/", "/">>) /\ Len(s) > Len(HTTP) + 3

\* C15: for a candidate whose image and url are not absolute, the image_url
\* of its record, when not null, is an absolute URL without a query string
\* and the product_url, when not null, is an absolute URL on the site's host.
C15_AbsoluteUrls ==
    (OneFlat /\ call.ret # Throw /\ Len(call.ret.v) = 1)
        => LET image == Get(call.arg.v[1], "image")
               url == Get(call.arg.v[1], "url")
               out == call.ret.v[1]
           IN  /\ (IsString(image) /\ ~IsAbsoluteUrl(image.v) /\ out.image_url # Null)
                     => /\ IsString(out.image_url)
                        /\ IsAbsoluteUrl(out.image_url.v)
                        /\ \A i \in 1..Len(out.image_url.v) : out.image_url.v[i] # "?"
               /\ (IsString(url) /\ ~IsAbsoluteUrl(url.v) /\ out.product_url # Null)
                     => /\ IsString(out.product_url)
                        /\ StartsWith(out.product_url.v, SITE_HOST \o <<"/">>)

\* the depth to which the payload is searched for a product array
MaxSearchDepth == 10

\* the values directly inside an array or an object
Children(x) ==
    CASE x.k = "arr" -> {x.v[i] : i \in 1..Len(x.v)}
      [] x.k = "obj" -> {x.v[f] : f \in DOMAIN x.v}
      [] OTHER -> {}

RECURSIVE ProductArraysIn(_, _)
\* the arrays in x, down to the depth bound, that pass the product-array test
ProductArraysIn(x, depth) ==
    IF depth > MaxSearchDepth THEN {}
    ELSE (IF isProductArray(x) THEN {x} ELSE {})
         \cup UNION {ProductArraysIn(c, depth + 1) : c \in Children(x)}

\* C17: when no known path of an object payload holds a product array and a
\* product array lies elsewhere within the depth bound, the locator returns
\* the normalized products of such an array.
C17_FoundAwayFromKnownPaths ==
    (/\ Returned("extractProductsFromData")
     /\ call.arg.k = "obj"
     /\ \A i \in 1..Len(searchPaths) :
           ~isProductArray(getNestedValue(call.arg, searchPaths[i]))
     /\ ProductArraysIn(call.arg, 0) # {})
        => call.ret \in {normalizeProducts(a) : a \in ProductArraysIn(call.arg, 0)}

\* C19: on a payload in which no array passes the product-array test the
\* locator returns an empty list and raises no error.
C19_EmptyWithoutError ==
    (Returned("extractProductsFromData") /\ ProductArraysIn(call.arg, 0) = {})
        => call.ret = Ok(<<>>)

\* C18: the locator ends on every payload, one that holds itself included:
\* no object is entered while a call on it is still running, and the calls
\* never nest until the engine gives up.
C18_NoObjectRevisited ==
    /\ \A i, j \in 1..Len(traversal.stack) :
          traversal.stack[i].data = traversal.stack[j].data => i = j
    /\ traversal.ret # RangeError

\* the API's answer of the page a handler is on was a refusal or a failed fetch
ApiFailed(h) ==
    /\ handlers[h].page # NoPage
    /\ ~handlers[h].page.apiResponse.ok

\* the status of the refusal is the tail of the error of the evaluate's result
StatusInError(page) ==
    /\ ApiProducts(page).error # Undefined
    /\ \E k \in 1..Len(ApiProducts(page).error.v) :
          SubSeq(ApiProducts(page).error.v, k, Len(ApiProducts(page).error.v))
              = NatToString(page.apiResponse.status)

IsGroup(item) ==
    /\ Truthy(item)
    /\ Truthy(Get(item, "elements")) \/ Truthy(Get(item, "commercialComponents"))

\* what the flattening loop descends into for a group
Nested(item) ==
    IF Truthy(Get(item, "elements")) THEN Get(item, "elements")
    ELSE Get(item, "commercialComponents")

\* extractProductsFromData has returned from a call on an array whose first
\* element is a group
ReturnedOnGroups ==
    /\ Returned("extractProductsFromData")
    /\ IsArray(call.arg)
    /\ Len(call.arg.v) > 0
    /\ IsGroup(call.arg.v[1])

OneWrapped ==
    /\ Returned("normalizeProducts")
    /\ IsArray(call.arg) /\ Len(call.arg.v) = 1
    /\ call.arg.v[1].k = "obj"
    /\ \E w \in {"detail", "item", "product"} : Truthy(Get(call.arg.v[1], w))

\* the candidate has an accepted id and a name of its own
OwnIdAndName(item) ==
    /\ Truthy(Get(item, "id"))
    /\ ~RejectId(JsString(Get(item, "id")))
    /\ Truthy(Get(item, "name"))

\* the first of detail, item and product that the candidate has
FirstWrapper(item) ==
    IF Truthy(Get(item, "detail")) THEN Get(item, "detail")
    ELSE IF Truthy(Get(item, "item")) THEN Get(item, "item")
    ELSE Get(item, "product")

\* C22: a candidate with an id and a name of its own is read directly, its
\* record has that id and that name; a candidate without them is read
\* through the first of detail, item and product that it has
C22_ReadDirectlyUnlessUnidentified ==
    OneWrapped
    => /\ call.ret # Throw
       /\ IF OwnIdAndName(call.arg.v[1])
          THEN /\ Len(call.ret.v) = 1
               /\ call.ret.v[1].product_id = Str(JsString(Get(call.arg.v[1], "id")))
               /\ call.ret.v[1].name = Get(call.arg.v[1], "name")
          ELSE call.ret = normalizeProducts(Arr(<<FirstWrapper(call.arg.v[1])>>))

\* C23: the availability of a record is the candidate's availability when
\* it has one, otherwise in_stock or out_of_stock by its inStock when it has
\* that, and null when it has neither
C23_AvailabilityOrNull ==
    (OneFlat /\ call.ret # Throw /\ Len(call.ret.v) = 1)
    => call.ret.v[1].availability =
          IF Get(call.arg.v[1], "availability") # Undefined
          THEN Get(call.arg.v[1], "availability")
          ELSE IF Get(call.arg.v[1], "inStock") = Undefined THEN Null
          ELSE IF Truthy(Get(call.arg.v[1], "inStock")) THEN Str(IN_STOCK)
          ELSE Str(OUT_OF_STOCK)

\* C24: in every state of a run saved is the number of ids in seenIds, and
\* no step takes an id out of seenIds or lowers saved
C24_SavedCountsSeenIds ==
    [][/\ saved = Cardinality(seenIds)
       /\ saved' = Cardinality(seenIds')
       /\ seenIds \subseteq seenIds'
       /\ saved' >= saved]_vars

\* a second visit whose save loop skipped ids of the first and accepted
\* others has its batch ready for the sink
C24_Witness ==
    \E h \in Handlers :
        /\ handlers[h].pc = "push"
        /\ visits = 2
        /\ Len(handlers[h].productsToSave) > 0
        /\ Len(handlers[h].productsToSave) < Len(handlers[h].extractedProducts)
        /\ Cardinality(seenIds) > Len(handlers[h].productsToSave)
        /\ saved = Cardinality(seenIds)
        /\ saved * RESULTS_WANTED.d < RESULTS_WANTED.v

\* crawler.run has returned: no request waits and no handler runs
RunEnded ==
    /\ Len(requestQueue) = 0
    /\ \A h \in Handlers : Free(h)

\* C25: every run ends, also when each visit finds the load-more control
\* and accepts no new product
C25_EveryRunEnds == <>[]RunEnded

RECURSIVE DocIds(_)
RECURSIVE DocIdsOfItems(_)
\* the ids of the candidates of a payload in the order of the source JSON:
\* an object before what its elements and components hold, the members of
\* an array from left to right
DocIds(x) ==
    IF IsArray(x) THEN DocIdsOfItems(x.v)
    ELSE IF x.k = "obj"
    THEN <<Str(ProductId(Unwrap(x)))>>
         \o DocIds(Get(x, "elements")) \o DocIds(Get(x, "commercialComponents"))
    ELSE <<>>
DocIdsOfItems(items) ==
    IF Len(items) = 0 THEN <<>>
    ELSE DocIds(items[1]) \o DocIdsOfItems(Tail(items))

RECURSIVE IsSubsequence(_, _)
\* s is t with some members left out
IsSubsequence(s, t) ==
    IF Len(s) = 0 THEN TRUE
    ELSE IF Len(t) = 0 THEN FALSE
    ELSE IF s[1] = t[1] THEN IsSubsequence(Tail(s), Tail(t))
    ELSE IsSubsequence(s, Tail(t))

\* C26: the records that normalizeProducts and extractProductsFromData
\* return for an array are in the order of their candidates in the array,
\* groups and their members taken from left to right, with the rejected
\* candidates left out
C26_SourceOrderKept ==
    (call.fn # "none" /\ call.ret # Pending /\ IsArray(call.arg) /\ call.ret # Throw)
    => IsSubsequence([i \in 1..Len(call.ret.v) |-> call.ret.v[i].product_id],
                     DocIds(call.arg))

\* the call on a group of three candidates, a product and a group of a
\* group has returned the four products in the order of the payload
C26_Witness ==
    /\ Returned("extractProductsFromData")
    /\ call.ret # Throw
    /\ [i \in 1..Len(call.ret.v) |-> call.ret.v[i].product_id]
           = <<Str(Id2), Str(Id1), Str(Id5), Str(Id4)>>

\* what the value at the i-th known path of data yields
KnownPathYield(data, i) ==
    extractProductsFromData(getNestedValue(data, searchPaths[i]))

\* extractProductsFromData has returned from a call on an object each of
\* whose known paths yields a list, empty or not
ReturnedOnObject ==
    /\ Returned("extractProductsFromData")
    /\ call.arg.k = "obj"
    /\ \A i \in 1..Len(searchPaths) : KnownPathYield(call.arg, i) # Throw

\* C27: the result of the known-path search is what the first path of the
\* list with a non-empty yield yields, paths with a value and an empty
\* yield being passed over; it is empty only when every path yields nothing
C27_FirstYieldingPath ==
    ReturnedOnObject
    => IF \E i \in 1..Len(searchPaths) : Len(KnownPathYield(call.arg, i).v) > 0
       THEN \E i \in 1..Len(searchPaths) :
               /\ Len(KnownPathYield(call.arg, i).v) > 0
               /\ \A j \in 1..(i - 1) : Len(KnownPathYield(call.arg, j).v) = 0
               /\ call.ret = KnownPathYield(call.arg, i)
       ELSE call.ret = Ok(<<>>)

\* the call has returned the products of a later path after a path that
\* has a value and yields nothing
C27_Witness ==
    /\ ReturnedOnObject
    /\ \E i, j \in 1..Len(searchPaths) :
          /\ i < j
          /\ Truthy(getNestedValue(call.arg, searchPaths[i]))
          /\ Len(KnownPathYield(call.arg, i).v) = 0
          /\ Len(KnownPathYield(call.arg, j).v) > 0
          /\ call.ret = KnownPathYield(call.arg, j)

\* the value of the input is a number or a string that reads as one
IsNumeric(x) ==
    \/ x.k = "num"
    \/ x.k = "str" /\ Len(x.v) > 0 /\ AllDigits(x.v)

\* C28: for every value of results_wanted the target is a positive integer:
\* 20 for an absent or non-numeric value, 1 for a number below 1
C28_TargetIsPositiveInteger ==
    Returned("RESULTS_WANTED")
    => /\ call.ret.k = "num"
       /\ call.ret.d = 1
       /\ call.ret.v >= 1
       /\ ~IsNumeric(call.arg) => call.ret = Num(DefaultResultsWanted)
       /\ (IsNumeric(call.arg) /\ UnaryPlus(call.arg).v < UnaryPlus(call.arg).d)
              => call.ret = Num(1)

====
